---- MODULE Spec2Model ----
(***************************************************************************)
(* Model of the streaming-response aggregator of FerriteChatter            *)
(* (src/src/web.rs): WebSearchClient::stream_responses (the structured-    *)
(* event adapter) and WebSearchClient::stream_chat_model (the delta-choice *)
(* adapter), with the shared text and citation primitives.                 *)
(*                                                                         *)
(* Representation.                                                         *)
(*  - A string (Rust String / &str) is a sequence of atoms; an atom is a   *)
(*    TLA+ string standing for one or more consecutive characters. The     *)
(*    empty string is << >>, concatenation is \o.                          *)
(*  - The bytes of the HTTP body are a sequence of atoms too: CR, LF, SP,  *)
(*    the marker "data:", the sentinel "[DONE]", the two bytes of one      *)
(*    two-byte UTF-8 character, and the texts of JSON documents. A chunk   *)
(*    is cut between atoms.                                                *)
(*  - A serde_json::Value is a record [t, v]: t the kind, v the content.   *)
(*    An object keeps its members as a sequence of <<key, value>> in key   *)
(*    order (serde_json's default map is a BTreeMap); every document text  *)
(*    of the model lists its keys in that order where the order can be     *)
(*    observed.                                                            *)
(*  - Option<T> is a sequence of length 0 (None) or 1 (Some).              *)
(***************************************************************************)
EXTENDS Integers, Sequences, FiniteSets, TLC

\* ------------------------------------------------------------ characters

CR == "\r"
LF == "\n"
SP == " "
DATA == "data:"
DONE == "[DONE]"
\* the two bytes of U+00E9, the character they decode to, and U+FFFD
B_C3 == "0xC3"
B_A9 == "0xA9"
CH_E9 == "e-acute"
CH_FFFD == "U+FFFD"
\* the separator of joined segments ("\n\n")
BLANKLINE == "\n\n"

\* char::is_whitespace on an atom (str::trim, and JSON's insignificant space)
IsWs(a) == a \in {CR, LF, SP, BLANKLINE}

RECURSIVE TrimStart(_)
TrimStart(s) ==
    IF s # << >> /\ IsWs(Head(s)) THEN TrimStart(Tail(s)) ELSE s

RECURSIVE TrimEnd(_)
TrimEnd(s) ==
    IF s # << >> /\ IsWs(s[Len(s)]) THEN TrimEnd(SubSeq(s, 1, Len(s) - 1)) ELSE s

\* str::trim
Trim(s) == TrimEnd(TrimStart(s))

\* Vec<String>::join(sep)
RECURSIVE Join(_, _)
Join(parts, sep) ==
    IF parts = << >> THEN << >>
    ELSE IF Len(parts) = 1 THEN parts[1]
    ELSE parts[1] \o sep \o Join(Tail(parts), sep)

\* concatenation of a sequence of strings
RECURSIVE Concat(_)
Concat(parts) ==
    IF parts = << >> THEN << >> ELSE Head(parts) \o Concat(Tail(parts))

\* ------------------------------------------------------------ JSON values

JNull == [t |-> "null", v |-> << >>]
JStr(s) == [t |-> "str", v |-> s]
JArr(items) == [t |-> "arr", v |-> items]
JObj(members) == [t |-> "obj", v |-> members]

None == << >>
Some(x) == <<x>>

\* Result<()> with the run's state: Ok(()) and Err(msg)
Ok(a) == [a |-> a, err |-> None]
Err(a, msg) == [a |-> a, err |-> Some(msg)]

\* Value::get(key): the member of an object, None for any other value
Get(value, key) ==
    IF value.t = "obj" /\ \E i \in 1..Len(value.v) : value.v[i][1] = key
    THEN Some(value.v[CHOOSE i \in 1..Len(value.v) : value.v[i][1] = key][2])
    ELSE None

\* opt.and_then(|v| v.as_str())
AsStr(opt) == IF opt # None /\ opt[1].t = "str" THEN Some(opt[1].v) ELSE None

\* opt.and_then(|v| v.as_array())
AsArray(opt) == IF opt # None /\ opt[1].t = "arr" THEN Some(opt[1].v) ELSE None

\* value.get(key).and_then(|v| v.as_str())
GetStr(value, key) == AsStr(Get(value, key))

\* serde_json::to_string: the compact text of a value, as atoms
RECURSIVE to_string(_)
RECURSIVE to_string_members(_, _)
RECURSIVE to_string_items(_, _)
to_string(value) ==
    CASE value.t = "str" -> <<"\"">> \o value.v \o <<"\"">>
      [] value.t = "arr" -> <<"[">> \o to_string_items(value.v, 1) \o <<"]">>
      [] value.t = "obj" -> <<"{">> \o to_string_members(value.v, 1) \o <<"}">>
      [] OTHER -> <<"null">>
to_string_members(ms, i) ==
    IF i > Len(ms) THEN << >>
    ELSE (IF i > 1 THEN <<",">> ELSE << >>)
         \o <<"\"", ms[i][1], "\"", ":">> \o to_string(ms[i][2])
         \o to_string_members(ms, i + 1)
to_string_items(xs, i) ==
    IF i > Len(xs) THEN << >>
    ELSE (IF i > 1 THEN <<",">> ELSE << >>) \o to_string(xs[i])
         \o to_string_items(xs, i + 1)

\* ------------------------------------------------------------ text segments

SegmentTypes == {<<"output_text">>, <<"text">>, <<"summary_text">>, <<"output">>}
NamedKeys == {"content", "messages", "output", "choices", "items", "parts"}

RECURSIVE collect_text_segments(_, _)
RECURSIVE collect_text_segments_members(_, _, _)
RECURSIVE collect_text_segments_items(_, _, _)
collect_text_segments(value, segments) ==
    CASE value.t = "obj" ->
           LET text == GetStr(value, "text")
               tyo == GetStr(value, "type")
               ty == IF tyo = None THEN << >> ELSE tyo[1]
               s1 == IF text # None /\ (ty = << >> \/ ty \in SegmentTypes)
                     THEN Append(segments, text[1]) ELSE segments
               delta == GetStr(value, "text_delta")
               s2 == IF delta # None THEN Append(s1, delta[1]) ELSE s1
           IN collect_text_segments_members(value.v, 1, s2)
      [] value.t = "arr" -> collect_text_segments_items(value.v, 1, segments)
      [] OTHER -> segments
collect_text_segments_members(ms, i, segments) ==
    IF i > Len(ms) THEN segments
    ELSE LET key == ms[i][1]
             val == ms[i][2]
             s1 == IF key \in {"text", "text_delta"} THEN segments
                   ELSE IF key \in NamedKeys THEN collect_text_segments(val, segments)
                   ELSE IF val.t \in {"arr", "obj"} THEN collect_text_segments(val, segments)
                   ELSE segments
         IN collect_text_segments_members(ms, i + 1, s1)
collect_text_segments_items(xs, i, segments) ==
    IF i > Len(xs) THEN segments
    ELSE collect_text_segments_items(xs, i + 1, collect_text_segments(xs[i], segments))

extract_text_segments_list(value) ==
    SelectSeq(collect_text_segments(value, << >>), LAMBDA seg : seg # << >>)

extract_text_from_response(value) ==
    LET segments == extract_text_segments_list(value)
    IN IF segments = << >> THEN None ELSE Some(Join(segments, <<BLANKLINE>>))

RECURSIVE extend_segments(_, _, _)
extend_segments(items, i, segments) ==
    IF i > Len(items) THEN segments
    ELSE extend_segments(items, i + 1, segments \o extract_text_segments_list(items[i]))

extract_text_from_message(message) ==
    LET content == Get(message, "content")
    IN IF content = None THEN None
       ELSE CASE content[1].t = "str" -> Some(content[1].v)
              [] content[1].t = "arr" ->
                   LET segments == extend_segments(content[1].v, 1, << >>)
                   IN IF segments # << >> THEN Some(Join(segments, <<BLANKLINE>>)) ELSE None
              [] OTHER ->
                   LET segments == extract_text_segments_list(content[1])
                   IN IF segments # << >> THEN Some(Join(segments, <<BLANKLINE>>)) ELSE None

\* ------------------------------------------------------------ citations

\* map.get(k1).or_else(|| map.get(k2))...: the first key present, any kind
RECURSIVE FirstPresent(_, _)
FirstPresent(value, keys) ==
    IF keys = << >> THEN None
    ELSE IF Get(value, Head(keys)) # None THEN Get(value, Head(keys))
    ELSE FirstPresent(value, Tail(keys))

UrlKeys == <<"url", "source_url", "href", "uri">>
TitleKeys == <<"title", "name", "source", "page_title">>

\* Citation { url, title }
Citation(url, title) == [url |-> url, title |-> title]

\* collect_citations works on the pair (citations, seen) of the run; a is
\* the run's state record and only these two fields change.
RECURSIVE collect_citations(_, _)
RECURSIVE collect_citations_each(_, _, _, _)
\* collect_citations without the test of seen.insert: every URL-bearing
\* object adds an entry
collect_citations_unseen(value, a) ==
    CASE value.t = "obj" ->
           LET url_field == AsStr(FirstPresent(value, UrlKeys))
               a1 == IF url_field # None
                     THEN [a EXCEPT
                             !.seen_citations = @ \cup {url_field[1]},
                             !.citations = Append(@,
                                 Citation(url_field[1],
                                          AsStr(FirstPresent(value, TitleKeys))))]
                     ELSE a
           IN collect_citations_each(value.v, 1, TRUE, a1)
      [] value.t = "arr" -> collect_citations_each(value.v, 1, FALSE, a)
      [] OTHER -> a
\* collect_citations not going into an object that has a URL
collect_citations_shallow(value, a) ==
    CASE value.t = "obj" ->
           LET url_field == AsStr(FirstPresent(value, UrlKeys))
           IN IF url_field = None THEN collect_citations_each(value.v, 1, TRUE, a)
              ELSE IF url_field[1] \in a.seen_citations THEN a
              ELSE [a EXCEPT
                      !.seen_citations = @ \cup {url_field[1]},
                      !.citations = Append(@,
                          Citation(url_field[1],
                                   AsStr(FirstPresent(value, TitleKeys))))]
      [] value.t = "arr" -> collect_citations_each(value.v, 1, FALSE, a)
      [] OTHER -> a
\* collect_citations without seen.insert: the URL of a new entry is not
\* remembered
collect_citations_forgetful(value, a) ==
    CASE value.t = "obj" ->
           LET url_field == AsStr(FirstPresent(value, UrlKeys))
               a1 == IF url_field # None /\ url_field[1] \notin a.seen_citations
                     THEN [a EXCEPT
                             !.citations = Append(@,
                                 Citation(url_field[1],
                                          AsStr(FirstPresent(value, TitleKeys))))]
                     ELSE a
           IN collect_citations_each(value.v, 1, TRUE, a1)
      [] value.t = "arr" -> collect_citations_each(value.v, 1, FALSE, a)
      [] OTHER -> a
collect_citations(value, a) ==
    CASE value.t = "obj" ->
           LET url_field == AsStr(FirstPresent(value, UrlKeys))
               a1 == IF url_field # None /\ url_field[1] \notin a.seen_citations
                     THEN [a EXCEPT
                             !.seen_citations = @ \cup {url_field[1]},
                             !.citations = Append(@,
                                 Citation(url_field[1],
                                          AsStr(FirstPresent(value, TitleKeys))))]
                     ELSE a
           IN collect_citations_each(value.v, 1, TRUE, a1)
      [] value.t = "arr" -> collect_citations_each(value.v, 1, FALSE, a)
      [] OTHER -> a
collect_citations_each(xs, i, members, a) ==
    IF i > Len(xs) THEN a
    ELSE collect_citations_each(xs, i + 1, members,
             collect_citations(IF members THEN xs[i][2] ELSE xs[i], a))

\* ------------------------------------------------------------ the sink

\* the capacity of the buffer of standard output (a LineWriter)
StdoutBuffer == 1024

\* the atoms that hold a line feed
NewlineAtoms == {LF, BLANKLINE}

\* the number of bytes of a text of ASCII atoms
RECURSIVE ByteLen(_)
ByteLen(s) == IF s = << >> THEN 0 ELSE Len(Head(s)) + ByteLen(Tail(s))

\* print!("{delta}") writes to the device before flush() is reached, the
\* buffer holding held bytes already: the text holds a line feed (the buffer
\* and the lines are written at once), it does not fit the buffer (it is
\* written directly), or it exceeds the room left (the buffer is written)
stdout_writes(s, held) ==
    \/ \E i \in 1..Len(s) : s[i] \in NewlineAtoms
    \/ ByteLen(s) >= StdoutBuffer
    \/ ByteLen(s) > StdoutBuffer - held

\* what print!("{delta}") leaves in the empty buffer of standard output for
\* flush() to write: the text after its last line feed, or the whole text
\* when it has none, unless it does not fit the buffer
stdout_buffers(s) ==
    LET tail == IF \E i \in 1..Len(s) : s[i] \in NewlineAtoms
                THEN SubSeq(s, 1 + (CHOOSE i \in 1..Len(s) :
                                        /\ s[i] \in NewlineAtoms
                                        /\ \A j \in (i + 1)..Len(s) : s[j] \notin NewlineAtoms),
                            Len(s))
                ELSE s
    IN IF ByteLen(tail) < StdoutBuffer THEN tail ELSE << >>

\* the message of the error flush() returns, and of the panic of print!
SinkFailed == <<"sink failed">>
StdoutPanic == <<"failed printing to stdout">>

\* the call numbered i of the closure fails: standard output fails first at
\* the call numbered sink_fail_at (0: never), and at every later call
\* unless it recovers
sink_fails(i, a) ==
    /\ a.sink_fail_at # 0
    /\ i = a.sink_fail_at \/ (i > a.sink_fail_at /\ ~a.stdout_recovers)

\* the failing call of the closure in the state a, with the text s, panics:
\* the write that fails is one of print!. At the first failing call the
\* buffer is empty, and standard output may take the write of the lines
\* and fail at the write of what follows them, which flush() makes; at a
\* later one every write fails, and the buffer holds what the failed calls
\* left in it
stdout_panics(s, a) ==
    IF Len(a.sunk) + 1 = a.sink_fail_at
    THEN stdout_writes(s, 0) /\ ~(a.stdout_takes_line /\ stdout_buffers(s) # << >>)
    ELSE stdout_writes(s, ByteLen(stdout_buffers(a.sunk[a.sink_fail_at])
                                  \o Concat(SubSeq(a.sunk, a.sink_fail_at + 1, Len(a.sunk)))))

\* on_delta(s): the caller's closure, print!("{delta}") and then
\* io::stdout().flush(). It is invoked in order. When the write that fails
\* is one of print!, the closure panics; when it is the one of flush(), the
\* closure returns Err.
on_delta(s, a) ==
    IF sink_fails(Len(a.sunk) + 1, a)
    THEN [a |-> [a EXCEPT !.sunk = Append(@, s), !.sink_failed = TRUE],
          err |-> Some(IF stdout_panics(s, a) THEN StdoutPanic ELSE SinkFailed)]
    ELSE [a |-> [a EXCEPT !.sunk = Append(@, s)], err |-> None]

\* the closure panicked in the state a: its last call failed in print!.
\* The panic unwinds out of stream_response.
Panicked(a) ==
    /\ a.sunk # << >>
    /\ sink_fails(Len(a.sunk), a)
    /\ stdout_panics(a.sunk[Len(a.sunk)], [a EXCEPT !.sunk = SubSeq(@, 1, Len(@) - 1)])

\* text_buffer.push_str(seg) before on_delta(seg)?
push_fragment_append_first(seg, a) ==
    on_delta(seg, [a EXCEPT !.text_buffer = @ \o seg])
\* on_delta(seg)?; text_buffer.push_str(seg)
push_fragment(seg, a) ==
    LET r == on_delta(seg, a)
    IN IF r.err # None THEN r
       ELSE [a |-> [r.a EXCEPT !.text_buffer = @ \o seg], err |-> None]

\* the loop of handle_delta_value over the segments of a structured delta
RECURSIVE emit_segments(_, _, _, _)
\* the loop taking the segments from the last to the first
RECURSIVE emit_segments_backwards(_, _, _, _)
emit_segments_backwards(segments, i, a, emitted) ==
    IF i > Len(segments) THEN [a |-> a, err |-> None, emitted |-> emitted]
    ELSE IF segments[Len(segments) + 1 - i] = << >>
    THEN emit_segments_backwards(segments, i + 1, a, emitted)
    ELSE LET r == push_fragment(segments[Len(segments) + 1 - i], a)
         IN IF r.err # None THEN [a |-> r.a, err |-> r.err, emitted |-> FALSE]
            ELSE emit_segments_backwards(segments, i + 1, r.a, TRUE)
emit_segments(segments, i, a, emitted) ==
    IF i > Len(segments) THEN [a |-> a, err |-> None, emitted |-> emitted]
    ELSE IF segments[i] = << >> THEN emit_segments(segments, i + 1, a, emitted)
    ELSE LET r == push_fragment(segments[i], a)
         IN IF r.err # None THEN [a |-> r.a, err |-> r.err, emitted |-> FALSE]
            ELSE emit_segments(segments, i + 1, r.a, TRUE)

handle_delta_value(delta_val, a) ==
    IF delta_val.t = "str"
    THEN IF delta_val.v # << >>
         THEN LET r == push_fragment(delta_val.v, a)
              IN [a |-> r.a, err |-> r.err, emitted |-> r.err = None]
         ELSE [a |-> a, err |-> None, emitted |-> FALSE]
    ELSE emit_segments(extract_text_segments_list(delta_val), 1, a, FALSE)

\* ------------------------------------------------------------ documents

RECURSIVE parse_response_output_parts(_, _, _)
\* the loop taking the text of the first part only
RECURSIVE parse_response_output_parts_first_only(_, _, _)
parse_response_output_parts_first_only(content, i, r) ==
    IF i > Len(content) THEN r
    ELSE LET part == content[i]
             text == GetStr(part, "text")
             delta == GetStr(part, "text_delta")
             add == IF i > 1 THEN << >>
                    ELSE IF GetStr(part, "type") = Some(<<"output_text">>)
                    THEN (IF text # None THEN text[1] ELSE << >>)
                         \o (IF delta # None THEN delta[1] ELSE << >>)
                    ELSE IF text # None THEN text[1]
                    ELSE IF part.t = "str" THEN part.v
                    ELSE << >>
         IN parse_response_output_parts_first_only(content, i + 1,
                [text |-> r.text \o add, a |-> collect_citations(part, r.a)])
\* the loop taking text and text_delta of a part of any type, and no bare
\* string
RECURSIVE parse_response_output_parts_any_type(_, _, _)
parse_response_output_parts_any_type(content, i, r) ==
    IF i > Len(content) THEN r
    ELSE parse_response_output_parts_any_type(content, i + 1,
             [text |-> r.text
                       \o (IF GetStr(content[i], "text") # None
                           THEN GetStr(content[i], "text")[1] ELSE << >>)
                       \o (IF GetStr(content[i], "text_delta") # None
                           THEN GetStr(content[i], "text_delta")[1] ELSE << >>),
              a |-> collect_citations(content[i], r.a)])
\* the loop of parse_response_output over the parts of content
parse_response_output_parts(content, i, r) ==
    IF i > Len(content) THEN r
    ELSE LET part == content[i]
             text == GetStr(part, "text")
             delta == GetStr(part, "text_delta")
             add == IF GetStr(part, "type") = Some(<<"output_text">>)
                    THEN (IF text # None THEN text[1] ELSE << >>)
                         \o (IF delta # None THEN delta[1] ELSE << >>)
                    ELSE IF text # None THEN text[1]
                    ELSE IF part.t = "str" THEN part.v
                    ELSE << >>
         IN parse_response_output_parts(content, i + 1,
                [text |-> r.text \o add, a |-> collect_citations(part, r.a)])

RECURSIVE parse_response_output_items(_, _, _)
\* the loop over the items taking the parts of items of any type
RECURSIVE parse_response_output_items_any_type(_, _, _)
parse_response_output_items_any_type(output, i, r) ==
    IF i > Len(output) THEN r
    ELSE IF AsArray(Get(output[i], "content")) = None
    THEN parse_response_output_items_any_type(output, i + 1, r)
    ELSE parse_response_output_items_any_type(output, i + 1,
             parse_response_output_parts(AsArray(Get(output[i], "content"))[1], 1, r))
\* the loop of parse_response_output over the items of output
parse_response_output_items(output, i, r) ==
    IF i > Len(output) THEN r
    ELSE LET item == output[i]
             content == AsArray(Get(item, "content"))
         IN IF GetStr(item, "type") # Some(<<"message">>) \/ content = None
            THEN parse_response_output_items(output, i + 1, r)
            ELSE parse_response_output_items(output, i + 1,
                     parse_response_output_parts(content[1], 1, r))

\* returns [text, a]: the text, and the run's state with citations harvested
parse_response_output(value, a) ==
    LET output == AsArray(Get(value, "output"))
    IN IF output = None THEN [text |-> << >>, a |-> a]
       ELSE parse_response_output_items(output[1], 1, [text |-> << >>, a |-> a])

\* ------------------------------------------------------------ chat deltas

\* displayed = true when handle_delta_value emitted
mark_displayed(r) == IF r.emitted THEN [r.a EXCEPT !.displayed = TRUE] ELSE r.a

\* the loop of process_chat_delta over the items of an array content
RECURSIVE process_chat_delta_items(_, _, _)
RECURSIVE process_chat_delta_item(_, _, _)
process_chat_delta_items(items, i, a) ==
    IF i > Len(items) THEN Ok(a)
    ELSE process_chat_delta_item(items, i, handle_delta_value(items[i], a))
\* r is the outcome of handle_delta_value on item i
process_chat_delta_item(items, i, r) ==
    IF r.err # None THEN Err(r.a, r.err[1])
    ELSE process_chat_delta_items(items, i + 1, collect_citations(items[i], mark_displayed(r)))

\* collect_citations on an optional member
collect_citations_opt(opt, a) ==
    IF opt = None THEN a ELSE collect_citations(opt[1], a)

\* the string content of a delta; r is the outcome of the push
chat_content_pushed(r) ==
    IF r.err # None THEN r ELSE Ok([r.a EXCEPT !.displayed = TRUE])

\* a content that is neither array nor string; r is the outcome of
\* handle_delta_value on it
chat_content_other(content, r) ==
    IF r.err # None THEN Err(r.a, r.err[1])
    ELSE Ok(collect_citations(content, mark_displayed(r)))

\* the match on delta.content
chat_content(content, a) ==
    CASE content.t = "arr" -> process_chat_delta_items(content.v, 1, a)
      [] content.t = "str" ->
           IF content.v # << >> THEN chat_content_pushed(push_fragment(content.v, a))
           ELSE Ok(a)
      [] OTHER -> chat_content_other(content, handle_delta_value(content, a))

\* the citations, annotations and metadata members of a delta; r is the
\* outcome of the match on delta.content
chat_delta_members(delta, r) ==
    IF r.err # None THEN r
    ELSE Ok(collect_citations_opt(Get(delta, "metadata"),
              collect_citations_opt(Get(delta, "annotations"),
                collect_citations_opt(Get(delta, "citations"), r.a))))

process_chat_delta(delta, a) ==
    chat_delta_members(delta,
        IF Get(delta, "content") # None THEN chat_content(Get(delta, "content")[1], a)
        ELSE Ok(a))

\* ------------------------------------------------------------ JSON texts

\* The document texts that occur in the streams of the model, and the value
\* serde_json::from_str gives for each.

T_Hello == "{\"delta\":\"Hello \",\"type\":\"response.output_text.delta\"}"
T_World == "{\"delta\":\"world\",\"type\":\"response.output_text.delta\"}"
T_Blank == "{\"delta\":\" \",\"type\":\"response.output_text.delta\"}"
T_Empty == "{\"delta\":\"\",\"type\":\"response.output_text.delta\"}"
T_Parts == "{\"delta\":{\"content\":[{\"text_delta\":\"a\",\"type\":\"output_text\"},{\"text_delta\":\"b\",\"type\":\"output_text\"}]},\"type\":\"response.output_text.delta\"}"
T_Message == "{\"content\":[{\"text\":\"Final\",\"type\":\"output_text\"}],\"type\":\"message\"}"
T_Completed == "{\"response\":{\"output\":[{\"content\":[{\"annotations\":[{\"title\":\"Example\",\"type\":\"url_citation\",\"url\":\"https://example.com\"}],\"text\":\"Answer\",\"type\":\"output_text\"}],\"type\":\"message\"}]},\"type\":\"response.completed\"}"
T_CompletedBare == "{\"response\":{\"id\":\"r1\"},\"type\":\"response.completed\"}"
T_Error == "{\"error\":{\"message\":\"boom\"},\"type\":\"response.error\"}"
T_Annotation == "{\"annotation\":{\"title\":\"Other\",\"url\":\"https://example.com\"},\"more\":{\"href\":\"https://example.org\"},\"type\":\"response.output_text.annotation.added\"}"
T_Bad == "{\"delta\":"
\* a delta whose fragment is the one character U+00E9: the text before the
\* character's two bytes and the text after them
T_AccentPre == "{\"delta\":\""
T_AccentPost == "\",\"type\":\"response.output_text.delta\"}"

K_Hi == "{\"choices\":[{\"delta\":{\"content\":\"Hi\"}}]}"
K_Blank == "{\"choices\":[{\"delta\":{\"content\":\" \"}}]}"
K_Parts == "{\"choices\":[{\"delta\":{\"content\":[{\"text\":\"a\",\"type\":\"text\"},{\"text\":\"b\",\"text_delta\":\"c\",\"type\":\"text\"}]}}]}"
K_Final == "{\"choices\":[{\"finish_reason\":\"stop\",\"message\":{\"content\":\"Done.\"}}]}"
K_FinalEmpty == "{\"choices\":[{\"finish_reason\":\"stop\",\"message\":{\"content\":\"\",\"role\":\"assistant\"}}]}"
K_FinalParts == "{\"choices\":[{\"message\":{\"content\":[{\"annotations\":[{\"name\":\"Docs\",\"uri\":\"https://example.net\"}],\"text\":\"P\"},{\"text\":\"Q\"}]}}]}"
K_Cite == "{\"choices\":[{\"delta\":{\"annotations\":[{\"title\":\"Example\",\"url\":\"https://example.com\"},{\"title\":\"Again\",\"url\":\"https://example.com\"}]}}]}"
K_Plain == "{\"content\":[{\"text\":\"Plain\"}]}"

\* a completed response with two output_text parts and three annotations,
\* two of them with the same url
T_Completed2 == "{\"response\":{\"output\":[{\"content\":[{\"annotations\":[{\"title\":\"One\",\"url\":\"https://one.example\"},{\"title\":\"Dup\",\"url\":\"https://one.example\"}],\"text\":\"First \",\"type\":\"output_text\"},{\"annotations\":[{\"url\":\"https://two.example\"}],\"text\":\"second\",\"type\":\"output_text\"}],\"type\":\"message\"}]},\"type\":\"response.completed\"}"
\* an event of a type no arm of the match names
T_Ignored == "{\"type\":\"response.created\"}"
\* chunks without content: an empty delta, no choice
K_Empty == "{\"choices\":[{\"delta\":{}}]}"
K_NoChoice == "{\"choices\":[]}"
\* a line that is neither a data: line nor JSON
COMMENT == ": ping"

\* a fragment and a URL in one event, of either adapter
T_Cited == "{\"delta\":\"Hello \",\"source\":{\"url\":\"https://example.com\"},\"type\":\"response.output_text.delta\"}"
K_Cited == "{\"choices\":[{\"delta\":{\"annotations\":[{\"url\":\"https://example.com\"}],\"content\":\"Hi\"}}]}"

\* one document written on two lines: the text before the line break and
\* the text after it
T_HalfA == "{\"delta\":\"Hello \","
T_HalfB == "\"type\":\"response.output_text.delta\"}"
K_HalfA == "{\"choices\":"
K_HalfB == "[{\"delta\":{\"content\":\"Hi\"}}]}"
\* a line with the event field of the framing
EVENT == "event: delta"

\* events of the kinds of the match: a type no arm names with a fragment, a
\* text and a URL; message events without text and with two parts; a full
\* block with an empty and a hidden segment; payloads without a string type
T_Future == "{\"delta\":\"Nope\",\"text\":\"Ignored\",\"type\":\"response.future\",\"url\":\"https://example.org\"}"
T_MessageBare == "{\"type\":\"message\"}"
T_MessageParts == "{\"content\":[{\"text\":\"A\",\"type\":\"output_text\"},{\"text_delta\":\"B\"}],\"type\":\"message\"}"
T_OutputText == "{\"output\":[{\"text\":\"Full \",\"type\":\"output_text\"},{\"text\":\"\",\"type\":\"text\"},{\"text\":\"hidden\",\"type\":\"reasoning\"},{\"content\":[{\"text_delta\":\"block\"}]}],\"type\":\"response.output_text\"}"
T_Untyped == "{\"output\":[{\"content\":[{\"text\":\"skip\",\"type\":\"output_text\"}],\"type\":\"reasoning\"},{\"content\":[{\"text\":\"Whole\",\"type\":\"output_text\"},{\"text\":\" text\",\"type\":\"other\"}],\"type\":\"message\"}]}"
T_UntypedEmpty == "{\"output\":[],\"type\":null}"
T_UntypedOther == "{\"note\":{\"href\":\"https://example.net\"},\"text\":\"loose\"}"
\* chunks with two choices
K_Two == "{\"choices\":[{\"delta\":{\"content\":\"Hi\"}},{\"delta\":{\"content\":\"Second\"}}]}"
K_SecondOnly == "{\"choices\":[{\"delta\":{}},{\"delta\":{\"content\":\"Second\"},\"message\":{\"content\":\"Second\"}}]}"

\* a full block whose output is a string
T_OutputTextFlat == "{\"output\":\"flat\",\"type\":\"response.output_text\"}"

\* a chunk whose first choice has a nested content
K_Nested == "{\"choices\":[{\"delta\":{\"content\":{\"parts\":[{\"text\":\"n\"}]}}},{\"delta\":{\"content\":\"Second\"}}]}"

\* events with URL-bearing objects: a null url beside a string href; the
\* four URL keys and the four title keys; an object with a URL inside
\* another; the same outer URL again around a new one
T_NullUrl == "{\"ref\":{\"href\":\"https://example.net\",\"url\":null},\"type\":\"response.created\"}"
T_Sources == "{\"refs\":[{\"source\":\"A\",\"source_url\":\"https://a.example\"},{\"page_title\":\"B\",\"uri\":\"https://b.example\"},{\"href\":\"https://c.example\",\"name\":\"N\",\"title\":\"T\"},{\"uri\":\"https://u.example\",\"url\":\"https://d.example\"}],\"type\":\"response.created\"}"
T_NestedCite == "{\"cite\":{\"inner\":{\"name\":\"In\",\"url\":\"https://inner.example\"},\"url\":\"https://outer.example\"},\"type\":\"response.created\"}"
T_NestedDup == "{\"cite\":{\"inner\":[{\"url\":\"https://new.example\"}],\"title\":\"Again\",\"url\":\"https://outer.example\"},\"type\":\"response.created\"}"

\* values for the walk of the text segments: texts of every type, a bare
\* string, a text under a text key; an output with parts of several shapes
T_WalkTypes == "{\"delta\":{\"content\":[{\"text\":\"t1\",\"type\":\"output_text\"},{\"text\":\"t2\",\"type\":\"summary_text\"},{\"text\":\"t3\",\"type\":\"\"},{\"text\":\"no\",\"type\":\"reasoning\"},{\"text\":\"t4\",\"text_delta\":\"d4\",\"type\":\"output\"},{\"text_delta\":\"d5\",\"type\":\"reasoning\"},{\"text\":\"\"},\"bare\"],\"other\":{\"items\":[{\"text\":\"t6\"}]}},\"type\":\"response.output_text.delta\"}"
T_DeepText == "{\"delta\":{\"text\":{\"text\":\"deep\"}},\"type\":\"response.output_text.delta\"}"
T_UntypedParts == "{\"output\":[{\"content\":[{\"text\":\"A\",\"text_delta\":\"B\",\"type\":\"output_text\"},{\"text_delta\":\"C\"},\"bare\",{\"annotations\":[{\"url\":\"https://example.com\"}],\"text\":\"D\",\"type\":\"refusal\"}],\"type\":\"message\"},{\"content\":[{\"text\":\"skip\",\"type\":\"output_text\"}],\"type\":\"reasoning\"}]}"
K_DeepText == "{\"choices\":[{\"delta\":{\"content\":{\"text\":{\"text\":\"deep\"}}}}]}"

\* a fragment of two lines, a fragment of the size of the buffer of
\* standard output, a chunk with a fragment of two lines
T_Lines == "{\"delta\":\"a\\nb\",\"type\":\"response.output_text.delta\"}"
X_Big == "xxxxxxxxxxxxxxxxxxxxxxxxxxxxxxxxxxxxxxxxxxxxxxxxxxxxxxxxxxxxxxxxxxxxxxxxxxxxxxxxxxxxxxxxxxxxxxxxxxxxxxxxxxxxxxxxxxxxxxxxxxxxxxxxxxxxxxxxxxxxxxxxxxxxxxxxxxxxxxxxxxxxxxxxxxxxxxxxxxxxxxxxxxxxxxxxxxxxxxxxxxxxxxxxxxxxxxxxxxxxxxxxxxxxxxxxxxxxxxxxxxxxxxxxxxxxxxxxxxxxxxxxxxxxxxxxxxxxxxxxxxxxxxxxxxxxxxxxxxxxxxxxxxxxxxxxxxxxxxxxxxxxxxxxxxxxxxxxxxxxxxxxxxxxxxxxxxxxxxxxxxxxxxxxxxxxxxxxxxxxxxxxxxxxxxxxxxxxxxxxxxxxxxxxxxxxxxxxxxxxxxxxxxxxxxxxxxxxxxxxxxxxxxxxxxxxxxxxxxxxxxxxxxxxxxxxxxxxxxxxxxxxxxxxxxxxxxxxxxxxxxxxxxxxxxxxxxxxxxxxxxxxxxxxxxxxxxxxxxxxxxxxxxxxxxxxxxxxxxxxxxxxxxxxxxxxxxxxxxxxxxxxxxxxxxxxxxxxxxxxxxxxxxxxxxxxxxxxxxxxxxxxxxxxxxxxxxxxxxxxxxxxxxxxxxxxxxxxxxxxxxxxxxxxxxxxxxxxxxxxxxxxxxxxxxxxxxxxxxxxxxxxxxxxxxxxxxxxxxxxxxxxxxxxxxxxxxxxxxxxxxxxxxxxxxxxxxxxxxxxxxxxxxxxxxxxxxxxxxxxxxxxxxxxxxxxxxxxxxxxxxxxxxxxxxxxxxxxxxxxxxxxxxxxxxxxxxxxxxxxxxxxxxxxxxxxxxxxxxxxxxxxxxxxxxxxxxxxxxxxxxxxxxxxxxxxxxxxxxxxxxxxxxxxxxxxxxxxxxxxxxxxxxxxxxxxxxxxxxxxxxxxxxxxxxxxxxxxxxxxxxxxxxxxxxxxxxxxxxxxxxxxxxxxxxxxxxxxxxxxxxxxxxxxxxxxxxxxxxxxxxxx"
T_Big == "{\"delta\":\"xxxxxxxxxxxxxxxxxxxxxxxxxxxxxxxxxxxxxxxxxxxxxxxxxxxxxxxxxxxxxxxxxxxxxxxxxxxxxxxxxxxxxxxxxxxxxxxxxxxxxxxxxxxxxxxxxxxxxxxxxxxxxxxxxxxxxxxxxxxxxxxxxxxxxxxxxxxxxxxxxxxxxxxxxxxxxxxxxxxxxxxxxxxxxxxxxxxxxxxxxxxxxxxxxxxxxxxxxxxxxxxxxxxxxxxxxxxxxxxxxxxxxxxxxxxxxxxxxxxxxxxxxxxxxxxxxxxxxxxxxxxxxxxxxxxxxxxxxxxxxxxxxxxxxxxxxxxxxxxxxxxxxxxxxxxxxxxxxxxxxxxxxxxxxxxxxxxxxxxxxxxxxxxxxxxxxxxxxxxxxxxxxxxxxxxxxxxxxxxxxxxxxxxxxxxxxxxxxxxxxxxxxxxxxxxxxxxxxxxxxxxxxxxxxxxxxxxxxxxxxxxxxxxxxxxxxxxxxxxxxxxxxxxxxxxxxxxxxxxxxxxxxxxxxxxxxxxxxxxxxxxxxxxxxxxxxxxxxxxxxxxxxxxxxxxxxxxxxxxxxxxxxxxxxxxxxxxxxxxxxxxxxxxxxxxxxxxxxxxxxxxxxxxxxxxxxxxxxxxxxxxxxxxxxxxxxxxxxxxxxxxxxxxxxxxxxxxxxxxxxxxxxxxxxxxxxxxxxxxxxxxxxxxxxxxxxxxxxxxxxxxxxxxxxxxxxxxxxxxxxxxxxxxxxxxxxxxxxxxxxxxxxxxxxxxxxxxxxxxxxxxxxxxxxxxxxxxxxxxxxxxxxxxxxxxxxxxxxxxxxxxxxxxxxxxxxxxxxxxxxxxxxxxxxxxxxxxxxxxxxxxxxxxxxxxxxxxxxxxxxxxxxxxxxxxxxxxxxxxxxxxxxxxxxxxxxxxxxxxxxxxxxxxxxxxxxxxxxxxxxxxxxxxxxxxxxxxxxxxxxxxxxxxxxxxxxxxxxxxxxxxxxxxxxxxxxxxxxxxxxxxxxxxxxxxxxxxxxxxxxxxxxxxxxxxxxxxxxxxxxxxx\",\"type\":\"response.output_text.delta\"}"
K_Lines == "{\"choices\":[{\"delta\":{\"content\":\"a\\nb\"}}]}"

\* an annotation object {title?, url}
Annotation(title, url) ==
    JObj((IF title = None THEN << >> ELSE << <<"title", JStr(title[1])>> >>)
         \o << <<"url", JStr(<<url>>)>> >>)

\* a content part {annotations, text, type: output_text}
OutputTextPart(annotations, text) ==
    JObj(<< <<"annotations", JArr(annotations)>>, <<"text", JStr(<<text>>)>>,
            <<"type", JStr(<<"output_text">>)>> >>)

DeltaEvent(delta) ==
    JObj(<< <<"delta", delta>>, <<"type", JStr(<<"response.output_text.delta">>)>> >>)

TextDeltaPart(s) ==
    JObj(<< <<"text_delta", JStr(<<s>>)>>, <<"type", JStr(<<"output_text">>)>> >>)

\* a part {text, type} and a part {text_delta}
TypedText(text, type) ==
    JObj(<< <<"text", JStr(<<text>>)>>, <<"type", JStr(<<type>>)>> >>)

TextDeltaOnly(s) == JObj(<< <<"text_delta", JStr(<<s>>)>> >>)

ChatChunk(choice) == JObj(<< <<"choices", JArr(<<choice>>)>> >>)

ChatDelta(content) ==
    ChatChunk(JObj(<< <<"delta", JObj(<< <<"content", content>> >>)>> >>))

\* serde_json::from_str on a document text (after the insignificant
\* whitespace around it): Some(value), or None when the text is not JSON
from_str(payload) ==
    LET p == Trim(payload)
    IN CASE p = <<T_Hello>> -> Some(DeltaEvent(JStr(<<"Hello ">>)))
         [] p = <<T_World>> -> Some(DeltaEvent(JStr(<<"world">>)))
         [] p = <<T_Blank>> -> Some(DeltaEvent(JStr(<<SP>>)))
         [] p = <<T_Empty>> -> Some(DeltaEvent(JStr(<< >>)))
         [] p = <<T_AccentPre, CH_E9, T_AccentPost>> -> Some(DeltaEvent(JStr(<<CH_E9>>)))
         [] p = <<T_AccentPre, CH_FFFD, CH_FFFD, T_AccentPost>> ->
              Some(DeltaEvent(JStr(<<CH_FFFD, CH_FFFD>>)))
         [] p = <<T_Parts>> ->
              Some(DeltaEvent(JObj(<< <<"content",
                       JArr(<<TextDeltaPart("a"), TextDeltaPart("b")>>)>> >>)))
         [] p = <<T_Message>> ->
              Some(JObj(<< <<"content", JArr(<<
                               JObj(<< <<"text", JStr(<<"Final">>)>>,
                                       <<"type", JStr(<<"output_text">>)>> >>) >>)>>,
                           <<"type", JStr(<<"message">>)>> >>))
         [] p = <<T_Completed>> ->
              Some(JObj(<<
                <<"response", JObj(<< <<"output", JArr(<<
                    JObj(<< <<"content", JArr(<<
                              JObj(<< <<"annotations", JArr(<<
                                          JObj(<< <<"title", JStr(<<"Example">>)>>,
                                                  <<"type", JStr(<<"url_citation">>)>>,
                                                  <<"url", JStr(<<"https://example.com">>)>> >>)
                                        >>)>>,
                                      <<"text", JStr(<<"Answer">>)>>,
                                      <<"type", JStr(<<"output_text">>)>> >>) >>)>>,
                            <<"type", JStr(<<"message">>)>> >>) >>)>> >>)>>,
                <<"type", JStr(<<"response.completed">>)>> >>))
         [] p = <<T_CompletedBare>> ->
              Some(JObj(<< <<"response", JObj(<< <<"id", JStr(<<"r1">>)>> >>)>>,
                           <<"type", JStr(<<"response.completed">>)>> >>))
         [] p = <<T_Error>> ->
              Some(JObj(<< <<"error", JObj(<< <<"message", JStr(<<"boom">>)>> >>)>>,
                           <<"type", JStr(<<"response.error">>)>> >>))
         [] p = <<T_Annotation>> ->
              Some(JObj(<<
                <<"annotation", JObj(<< <<"title", JStr(<<"Other">>)>>,
                                        <<"url", JStr(<<"https://example.com">>)>> >>)>>,
                <<"more", JObj(<< <<"href", JStr(<<"https://example.org">>)>> >>)>>,
                <<"type", JStr(<<"response.output_text.annotation", ".added">>)>> >>))
         [] p = <<K_Hi>> -> Some(ChatDelta(JStr(<<"Hi">>)))
         [] p = <<K_Blank>> -> Some(ChatDelta(JStr(<<SP>>)))
         [] p = <<K_Parts>> ->
              Some(ChatDelta(JArr(<<
                  JObj(<< <<"text", JStr(<<"a">>)>>, <<"type", JStr(<<"text">>)>> >>),
                  JObj(<< <<"text", JStr(<<"b">>)>>, <<"text_delta", JStr(<<"c">>)>>,
                          <<"type", JStr(<<"text">>)>> >>) >>)))
         [] p = <<K_Final>> ->
              Some(ChatChunk(JObj(<<
                  <<"finish_reason", JStr(<<"stop">>)>>,
                  <<"message", JObj(<< <<"content", JStr(<<"Done.">>)>> >>)>> >>)))
         [] p = <<K_FinalEmpty>> ->
              Some(ChatChunk(JObj(<<
                  <<"finish_reason", JStr(<<"stop">>)>>,
                  <<"message", JObj(<< <<"content", JStr(<< >>)>>,
                                       <<"role", JStr(<<"assistant">>)>> >>)>> >>)))
         [] p = <<K_FinalParts>> ->
              Some(ChatChunk(JObj(<<
                  <<"message", JObj(<< <<"content", JArr(<<
                      JObj(<< <<"annotations", JArr(<<
                                  JObj(<< <<"name", JStr(<<"Docs">>)>>,
                                          <<"uri", JStr(<<"https://example.net">>)>> >>) >>)>>,
                              <<"text", JStr(<<"P">>)>> >>),
                      JObj(<< <<"text", JStr(<<"Q">>)>> >>) >>)>> >>)>> >>)))
         [] p = <<K_Cite>> ->
              Some(ChatChunk(JObj(<< <<"delta", JObj(<< <<"annotations", JArr(<<
                  JObj(<< <<"title", JStr(<<"Example">>)>>,
                          <<"url", JStr(<<"https://example.com">>)>> >>),
                  JObj(<< <<"title", JStr(<<"Again">>)>>,
                          <<"url", JStr(<<"https://example.com">>)>> >>) >>)>> >>)>> >>)))
         [] p = <<K_Plain>> ->
              Some(JObj(<< <<"content", JArr(<<
                  JObj(<< <<"text", JStr(<<"Plain">>)>> >>) >>)>> >>))
         [] p = <<T_Completed2>> ->
              Some(JObj(<<
                <<"response", JObj(<< <<"output", JArr(<<
                    JObj(<< <<"content", JArr(<<
                              OutputTextPart(<<Annotation(Some(<<"One">>), "https://one.example"),
                                               Annotation(Some(<<"Dup">>), "https://one.example")>>,
                                             "First "),
                              OutputTextPart(<<Annotation(None, "https://two.example")>>,
                                             "second") >>)>>,
                            <<"type", JStr(<<"message">>)>> >>) >>)>> >>)>>,
                <<"type", JStr(<<"response.completed">>)>> >>))
         [] p = <<T_Ignored>> -> Some(JObj(<< <<"type", JStr(<<"response.created">>)>> >>))
         [] p = <<K_Empty>> -> Some(ChatChunk(JObj(<< <<"delta", JObj(<< >>)>> >>)))
         [] p = <<K_NoChoice>> -> Some(JObj(<< <<"choices", JArr(<< >>)>> >>))
         [] p = <<T_Cited>> ->
              Some(JObj(<< <<"delta", JStr(<<"Hello ">>)>>,
                           <<"source", JObj(<< <<"url", JStr(<<"https://example.com">>)>> >>)>>,
                           <<"type", JStr(<<"response.output_text.delta">>)>> >>))
         [] p = <<K_Cited>> ->
              Some(ChatChunk(JObj(<< <<"delta", JObj(<<
                  <<"annotations", JArr(<<Annotation(None, "https://example.com")>>)>>,
                  <<"content", JStr(<<"Hi">>)>> >>)>> >>)))
         [] p = <<T_HalfA, LF, T_HalfB>> -> Some(DeltaEvent(JStr(<<"Hello ">>)))
         [] p = <<K_HalfA, LF, K_HalfB>> -> Some(ChatDelta(JStr(<<"Hi">>)))
         [] p = <<T_Future>> ->
              Some(JObj(<< <<"delta", JStr(<<"Nope">>)>>, <<"text", JStr(<<"Ignored">>)>>,
                           <<"type", JStr(<<"response.future">>)>>,
                           <<"url", JStr(<<"https://example.org">>)>> >>))
         [] p = <<T_MessageBare>> -> Some(JObj(<< <<"type", JStr(<<"message">>)>> >>))
         [] p = <<T_MessageParts>> ->
              Some(JObj(<< <<"content", JArr(<<
                               JObj(<< <<"text", JStr(<<"A">>)>>,
                                       <<"type", JStr(<<"output_text">>)>> >>),
                               TextDeltaOnly("B") >>)>>,
                           <<"type", JStr(<<"message">>)>> >>))
         [] p = <<T_OutputText>> ->
              Some(JObj(<< <<"output", JArr(<<
                               TypedText("Full ", "output_text"),
                               JObj(<< <<"text", JStr(<< >>)>>, <<"type", JStr(<<"text">>)>> >>),
                               TypedText("hidden", "reasoning"),
                               JObj(<< <<"content", JArr(<<TextDeltaOnly("block")>>)>> >>) >>)>>,
                           <<"type", JStr(<<"response.output_text">>)>> >>))
         [] p = <<T_Untyped>> ->
              Some(JObj(<< <<"output", JArr(<<
                  JObj(<< <<"content", JArr(<<TypedText("skip", "output_text")>>)>>,
                          <<"type", JStr(<<"reasoning">>)>> >>),
                  JObj(<< <<"content", JArr(<<TypedText("Whole", "output_text"),
                                              TypedText(" text", "other")>>)>>,
                          <<"type", JStr(<<"message">>)>> >>) >>)>> >>))
         [] p = <<T_UntypedEmpty>> ->
              Some(JObj(<< <<"output", JArr(<< >>)>>, <<"type", JNull>> >>))
         [] p = <<T_UntypedOther>> ->
              Some(JObj(<< <<"note", JObj(<< <<"href", JStr(<<"https://example.net">>)>> >>)>>,
                           <<"text", JStr(<<"loose">>)>> >>))
         [] p = <<K_Two>> ->
              Some(JObj(<< <<"choices", JArr(<<
                  JObj(<< <<"delta", JObj(<< <<"content", JStr(<<"Hi">>)>> >>)>> >>),
                  JObj(<< <<"delta", JObj(<< <<"content", JStr(<<"Second">>)>> >>)>> >>) >>)>> >>))
         [] p = <<K_SecondOnly>> ->
              Some(JObj(<< <<"choices", JArr(<<
                  JObj(<< <<"delta", JObj(<< >>)>> >>),
                  JObj(<< <<"delta", JObj(<< <<"content", JStr(<<"Second">>)>> >>)>>,
                          <<"message", JObj(<< <<"content", JStr(<<"Second">>)>> >>)>> >>) >>)>> >>))
         [] p = <<T_OutputTextFlat>> ->
              Some(JObj(<< <<"output", JStr(<<"flat">>)>>,
                           <<"type", JStr(<<"response.output_text">>)>> >>))
         [] p = <<K_Nested>> ->
              Some(JObj(<< <<"choices", JArr(<<
                  JObj(<< <<"delta", JObj(<< <<"content", JObj(<< <<"parts", JArr(<<
                      JObj(<< <<"text", JStr(<<"n">>)>> >>) >>)>> >>)>> >>)>> >>),
                  JObj(<< <<"delta", JObj(<< <<"content", JStr(<<"Second">>)>> >>)>> >>) >>)>> >>))
         [] p = <<T_NullUrl>> ->
              Some(JObj(<< <<"ref", JObj(<< <<"href", JStr(<<"https://example.net">>)>>,
                                            <<"url", JNull>> >>)>>,
                           <<"type", JStr(<<"response.created">>)>> >>))
         [] p = <<T_Sources>> ->
              Some(JObj(<< <<"refs", JArr(<<
                  JObj(<< <<"source", JStr(<<"A">>)>>,
                          <<"source_url", JStr(<<"https://a.example">>)>> >>),
                  JObj(<< <<"page_title", JStr(<<"B">>)>>,
                          <<"uri", JStr(<<"https://b.example">>)>> >>),
                  JObj(<< <<"href", JStr(<<"https://c.example">>)>>,
                          <<"name", JStr(<<"N">>)>>, <<"title", JStr(<<"T">>)>> >>),
                  JObj(<< <<"uri", JStr(<<"https://u.example">>)>>,
                          <<"url", JStr(<<"https://d.example">>)>> >>) >>)>>,
                           <<"type", JStr(<<"response.created">>)>> >>))
         [] p = <<T_NestedCite>> ->
              Some(JObj(<< <<"cite", JObj(<<
                               <<"inner", JObj(<< <<"name", JStr(<<"In">>)>>,
                                                  <<"url", JStr(<<"https://inner.example">>)>> >>)>>,
                               <<"url", JStr(<<"https://outer.example">>)>> >>)>>,
                           <<"type", JStr(<<"response.created">>)>> >>))
         [] p = <<T_NestedDup>> ->
              Some(JObj(<< <<"cite", JObj(<<
                               <<"inner", JArr(<<Annotation(None, "https://new.example")>>)>>,
                               <<"title", JStr(<<"Again">>)>>,
                               <<"url", JStr(<<"https://outer.example">>)>> >>)>>,
                           <<"type", JStr(<<"response.created">>)>> >>))
         [] p = <<T_WalkTypes>> ->
              Some(DeltaEvent(JObj(<<
                  <<"content", JArr(<<
                      TypedText("t1", "output_text"),
                      TypedText("t2", "summary_text"),
                      JObj(<< <<"text", JStr(<<"t3">>)>>, <<"type", JStr(<< >>)>> >>),
                      TypedText("no", "reasoning"),
                      JObj(<< <<"text", JStr(<<"t4">>)>>, <<"text_delta", JStr(<<"d4">>)>>,
                              <<"type", JStr(<<"output">>)>> >>),
                      JObj(<< <<"text_delta", JStr(<<"d5">>)>>,
                              <<"type", JStr(<<"reasoning">>)>> >>),
                      JObj(<< <<"text", JStr(<< >>)>> >>),
                      JStr(<<"bare">>) >>)>>,
                  <<"other", JObj(<< <<"items", JArr(<<
                      JObj(<< <<"text", JStr(<<"t6">>)>> >>) >>)>> >>)>> >>)))
         [] p = <<T_DeepText>> ->
              Some(DeltaEvent(JObj(<< <<"text", JObj(<< <<"text", JStr(<<"deep">>)>> >>)>> >>)))
         [] p = <<T_UntypedParts>> ->
              Some(JObj(<< <<"output", JArr(<<
                  JObj(<< <<"content", JArr(<<
                              JObj(<< <<"text", JStr(<<"A">>)>>, <<"text_delta", JStr(<<"B">>)>>,
                                      <<"type", JStr(<<"output_text">>)>> >>),
                              TextDeltaOnly("C"),
                              JStr(<<"bare">>),
                              JObj(<< <<"annotations",
                                        JArr(<<Annotation(None, "https://example.com")>>)>>,
                                      <<"text", JStr(<<"D">>)>>,
                                      <<"type", JStr(<<"refusal">>)>> >>) >>)>>,
                          <<"type", JStr(<<"message">>)>> >>),
                  JObj(<< <<"content", JArr(<<TypedText("skip", "output_text")>>)>>,
                          <<"type", JStr(<<"reasoning">>)>> >>) >>)>> >>))
         [] p = <<K_DeepText>> ->
              Some(ChatDelta(JObj(<< <<"text", JObj(<< <<"text", JStr(<<"deep">>)>> >>)>> >>)))
         [] p = <<T_Lines>> -> Some(DeltaEvent(JStr(<<"a", LF, "b">>)))
         [] p = <<T_Big>> -> Some(DeltaEvent(JStr(<<X_Big>>)))
         [] p = <<K_Lines>> -> Some(ChatDelta(JStr(<<"a", LF, "b">>)))
         [] OTHER -> None

\* ------------------------------------------------------------ the run's state

\* The locals of one call of stream_responses / stream_chat_model, as the
\* record the handlers work on. sunk, sink_failed and sink_fail_at describe
\* the caller's sink: the fragments it was invoked with, in order (a failing
\* invocation included), whether an invocation failed, and which one fails
\* first; stdout_takes_line and stdout_recovers describe standard output at
\* and after that invocation.
\* handled is a history of the payloads that parsed as JSON.
NewRun(fail_at, takes_line, recovers) ==
    [text_buffer |-> << >>,
     final_response |-> None,
     final_text |-> << >>,
     final_message |-> None,
     displayed |-> FALSE,
     citations |-> << >>,
     seen_citations |-> {},
     sunk |-> << >>,
     sink_failed |-> FALSE,
     sink_fail_at |-> fail_at,
     stdout_takes_line |-> takes_line,
     stdout_recovers |-> recovers,
     handled |-> << >>]

InvalidJson == <<"Invalid JSON chunk">>
UnknownError == <<"Unknown error">>

\* s.starts_with(prefix), the prefix being one atom
StartsWith(s, prefix) == s # << >> /\ Head(s) = prefix

\* ------------------------------------------------------------ stream_responses

\* the loop of the "response.output_text" arm
RECURSIVE output_text_segments(_, _, _)
\* the loop with each segment put in the place of the streamed text
RECURSIVE output_text_segments_replacing(_, _, _)
output_text_segments_replacing(segments, i, a) ==
    IF i > Len(segments) THEN Ok(a)
    ELSE IF segments[i] = << >> THEN output_text_segments_replacing(segments, i + 1, a)
    ELSE LET r == push_fragment(segments[i], a)
         IN IF r.err # None THEN r
            ELSE output_text_segments_replacing(segments, i + 1,
                     [r.a EXCEPT !.displayed = TRUE, !.text_buffer = segments[i]])
output_text_segments(segments, i, a) ==
    IF i > Len(segments) THEN Ok(a)
    ELSE IF segments[i] = << >> THEN output_text_segments(segments, i + 1, a)
    ELSE LET r == push_fragment(segments[i], a)
         IN IF r.err # None THEN r
            ELSE output_text_segments(segments, i + 1, [r.a EXCEPT !.displayed = TRUE])

\* the loop of the "message" arm over the parts of content
RECURSIVE message_parts_text(_, _)
message_parts_text(parts, i) ==
    IF i > Len(parts) THEN << >>
    ELSE (IF GetStr(parts[i], "text") # None THEN GetStr(parts[i], "text")[1] ELSE << >>)
         \o (IF GetStr(parts[i], "text_delta") # None
             THEN GetStr(parts[i], "text_delta")[1] ELSE << >>)
         \o message_parts_text(parts, i + 1)

\* opt.unwrap_or(default)
UnwrapOr(opt, default) == IF opt # None THEN opt[1] ELSE default

\* if s is empty, the alternative (an Option), else s
OrElse(s, alt) == IF s = << >> /\ alt # None THEN alt[1] ELSE s

\* the end of the "message" arm storing the aggregated text in text_buffer
\* whether text_buffer is empty or not
message_event_store_rewriting(json, aggregated, a) ==
    [a EXCEPT !.text_buffer = IF aggregated # << >> THEN aggregated ELSE @,
              !.final_text = IF aggregated # << >> THEN aggregated ELSE @,
              !.final_response = IF @ = None THEN Some(json) ELSE @]
\* the end of the "message" arm setting final_text only where it seeds
\* text_buffer
message_event_store_seed_only(json, aggregated, a) ==
    [a EXCEPT !.text_buffer = IF aggregated # << >> /\ @ = << >> THEN aggregated ELSE @,
              !.final_text = IF aggregated # << >> /\ a.text_buffer = << >>
                             THEN aggregated ELSE @,
              !.final_response = IF @ = None THEN Some(json) ELSE @]
\* the end of the "message" arm, given the aggregated text
message_event_store(json, aggregated, a) ==
    [a EXCEPT !.text_buffer = IF aggregated # << >> /\ @ = << >> THEN aggregated ELSE @,
              !.final_text = IF aggregated # << >> THEN aggregated ELSE @,
              !.final_response = IF @ = None THEN Some(json) ELSE @]

\* the "message" arm: the text of the parts of content, else the segments
\* of the event, else the event's JSON text
message_event(json, a) ==
    message_event_store(json,
        OrElse(OrElse(message_parts_text(UnwrapOr(AsArray(Get(json, "content")), << >>), 1),
                      extract_text_from_response(json)),
               Some(to_string(json))),
        a)

\* the match on the event type, and the untyped payload with an output
\* field; a0 is the state after the payload's citations were collected
responses_handle_event(json, event_type, a0) ==
    IF event_type # None
    THEN IF event_type[1] = <<"response.output_text.delta">>
         THEN IF Get(json, "delta") # None
              THEN LET r == handle_delta_value(Get(json, "delta")[1], a0)
                   IN IF r.err # None THEN Err(r.a, r.err[1])
                      ELSE Ok(IF r.emitted THEN [r.a EXCEPT !.displayed = TRUE]
                              ELSE r.a)
              ELSE Ok(a0)
         ELSE IF StartsWith(event_type[1], "response.output_text.annotation")
         THEN Ok(a0)
         ELSE IF event_type[1] = <<"response.output_text">>
         THEN IF Get(json, "output") # None
              THEN output_text_segments(
                       extract_text_segments_list(Get(json, "output")[1]), 1, a0)
              ELSE Ok(a0)
         ELSE IF event_type[1] = <<"response.completed">>
         THEN IF Get(json, "response") # None
              THEN Ok([a0 EXCEPT !.final_response = Some(Get(json, "response")[1])])
              ELSE Ok(a0)
         ELSE IF event_type[1] = <<"message">>
         THEN Ok(message_event(json, a0))
         ELSE IF event_type[1] = <<"response.error">>
         THEN LET message == GetStr(IF Get(json, "error") # None
                                    THEN Get(json, "error")[1] ELSE JNull,
                                    "message")
              IN Err(a0, IF message # None THEN message[1] ELSE UnknownError)
         ELSE Ok(a0)
    ELSE IF Get(json, "output") # None
    THEN LET parsed_out == parse_response_output(json, a0)
         IN Ok([parsed_out.a EXCEPT
                  !.final_text = IF parsed_out.text # << >>
                                 THEN parsed_out.text ELSE @,
                  !.final_response = Some(json)])
    ELSE Ok(a0)

\* the payload parsed, an event of a type no arm names taken as a message
\* event
responses_handle_json_default_message(parsed, payload, a) ==
    IF parsed = None THEN Err(a, InvalidJson)
    ELSE IF /\ GetStr(parsed[1], "type") # None
            /\ GetStr(parsed[1], "type")[1] \notin
                   {<<"response.output_text.delta">>, <<"response.output_text">>,
                    <<"response.completed">>, <<"message">>, <<"response.error">>}
    THEN Ok(message_event(parsed[1],
             [collect_citations(parsed[1], a) EXCEPT !.handled = Append(@, Trim(payload))]))
    ELSE responses_handle_event(parsed[1], GetStr(parsed[1], "type"),
             [collect_citations(parsed[1], a) EXCEPT !.handled = Append(@, Trim(payload))])
\* the payload parsed (or not); a parsed payload is noted in handled
responses_handle_json(parsed, payload, a) ==
    IF parsed = None THEN Err(a, InvalidJson)
    ELSE responses_handle_event(parsed[1], GetStr(parsed[1], "type"),
             [collect_citations(parsed[1], a) EXCEPT !.handled = Append(@, Trim(payload))])

\* the closure handle_payload of stream_responses
responses_handle_payload(payload, a) ==
    responses_handle_json(from_str(payload), payload, a)

\* ------------------------------------------------------------ event blocks

\* str::lines: the lines of a block, split at LF, a CR before the LF dropped
RECURSIVE LinesFrom(_, _, _)
LinesFrom(s, i, cur) ==
    IF i > Len(s) THEN (IF cur = << >> THEN << >> ELSE <<cur>>)
    ELSE IF s[i] = LF
    THEN <<IF cur # << >> /\ cur[Len(cur)] = CR
           THEN SubSeq(cur, 1, Len(cur) - 1) ELSE cur>>
         \o LinesFrom(s, i + 1, << >>)
    ELSE LinesFrom(s, i + 1, Append(cur, s[i]))

Lines(s) == LinesFrom(s, 1, << >>)

\* the loop of process_event over the lines: [done, payload_lines]
RECURSIVE scan_lines(_, _, _)
\* the loop keeping the payload of the latest data: line only
RECURSIVE scan_lines_latest(_, _, _)
scan_lines_latest(lines, i, payload_lines) ==
    IF i > Len(lines) THEN [done |-> FALSE, payload_lines |-> payload_lines]
    ELSE IF lines[i] # << >> /\ Head(lines[i]) = DATA
    THEN LET data == Trim(Tail(lines[i]))
         IN IF data = <<DONE>> THEN [done |-> TRUE, payload_lines |-> payload_lines]
            ELSE scan_lines_latest(lines, i + 1,
                     IF data # << >> THEN <<data>> ELSE payload_lines)
    ELSE scan_lines_latest(lines, i + 1, payload_lines)
scan_lines(lines, i, payload_lines) ==
    IF i > Len(lines) THEN [done |-> FALSE, payload_lines |-> payload_lines]
    ELSE IF lines[i] # << >> /\ Head(lines[i]) = DATA
    THEN LET data == Trim(Tail(lines[i]))
         IN IF data = <<DONE>> THEN [done |-> TRUE, payload_lines |-> payload_lines]
            ELSE scan_lines(lines, i + 1,
                     IF data # << >> THEN Append(payload_lines, data) ELSE payload_lines)
    ELSE scan_lines(lines, i + 1, payload_lines)

\* the outcome of process_event after handle_payload: a block without a
\* payload line (raw) drops the handler's error, a payload block returns it
\* (event_outcome_returned: the error is returned for a raw block as well)
\* A panic of the sink is no Result and unwinds through either.
event_outcome_returned(r, raw) == [a |-> r.a, done |-> FALSE, err |-> r.err]
event_outcome(r, raw) ==
    [a |-> r.a, done |-> FALSE, err |-> IF raw /\ ~Panicked(r.a) THEN None ELSE r.err]

\* process_event leaving aside a block without a payload line
responses_process_scanned_data_only(scan, event, a) ==
    IF scan.done THEN [a |-> a, done |-> TRUE, err |-> None]
    ELSE IF scan.payload_lines = << >>
    THEN [a |-> a, done |-> FALSE, err |-> None]
    ELSE event_outcome(responses_handle_payload(Join(scan.payload_lines, <<LF>>), a), FALSE)
\* process_event of stream_responses after the scan of the lines
responses_process_scanned(scan, event, a) ==
    IF scan.done THEN [a |-> a, done |-> TRUE, err |-> None]
    ELSE IF scan.payload_lines = << >> /\ Trim(event) = << >>
    THEN [a |-> a, done |-> FALSE, err |-> None]
    ELSE event_outcome(
             responses_handle_payload(
                 IF scan.payload_lines = << >> THEN Trim(event)
                 ELSE Join(scan.payload_lines, <<LF>>), a),
             scan.payload_lines = << >>)

\* the closure process_event of stream_responses: [a, done, err]
responses_process_event(event, a) ==
    responses_process_scanned(scan_lines(Lines(event), 1, << >>), event, a)

\* ------------------------------------------------------------ stream_chat_model

\* the message of the first choice, after its delta was processed
chat_handle_message(choice, r) ==
    IF r.err # None THEN r
    ELSE Ok(IF Get(choice, "message") # None
            THEN [r.a EXCEPT !.final_message = Some(Get(choice, "message")[1])]
            ELSE r.a)

\* the first choice of a chunk: its delta, then its message
chat_handle_choice(choice, a0) ==
    chat_handle_message(choice,
        IF Get(choice, "delta") # None
        THEN process_chat_delta(Get(choice, "delta")[1], a0)
        ELSE Ok(a0))

\* a payload with a choices array handled by its last choice
chat_handle_value_last_choice(json, choices, a0) ==
    IF choices # None
    THEN IF choices[1] # << >>
         THEN chat_handle_choice(choices[1][Len(choices[1])], a0) ELSE Ok(a0)
    ELSE IF a0.text_buffer = << >>
    THEN LET content == extract_text_from_response(json)
         IN Ok(IF content # None THEN [a0 EXCEPT !.text_buffer = content[1]] ELSE a0)
    ELSE Ok(a0)
\* a payload with a choices array, or any other payload
chat_handle_value(json, choices, a0) ==
    IF choices # None
    THEN IF choices[1] # << >> THEN chat_handle_choice(choices[1][1], a0) ELSE Ok(a0)
    ELSE IF a0.text_buffer = << >>
    THEN LET content == extract_text_from_response(json)
         IN Ok(IF content # None THEN [a0 EXCEPT !.text_buffer = content[1]] ELSE a0)
    ELSE Ok(a0)

\* the payload parsed (or not); a parsed payload is noted in handled
chat_handle_json(parsed, payload, a) ==
    IF parsed = None THEN Err(a, InvalidJson)
    ELSE chat_handle_value(parsed[1], AsArray(Get(parsed[1], "choices")),
             [collect_citations(parsed[1], a) EXCEPT !.handled = Append(@, Trim(payload))])

\* the closure handle_payload of stream_chat_model
chat_handle_payload(payload, a) ==
    chat_handle_json(from_str(payload), payload, a)

\* the payload lines before the sentinel handled before the loop is left
chat_process_scanned_payload_first(scan, event, a) ==
    IF scan.done
    THEN [a |-> IF scan.payload_lines = << >> THEN a
                ELSE chat_handle_payload(Join(scan.payload_lines, <<LF>>), a).a,
          done |-> TRUE, err |-> None]
    ELSE IF scan.payload_lines = << >> /\ Trim(event) = << >>
    THEN [a |-> a, done |-> FALSE, err |-> None]
    ELSE event_outcome(
             chat_handle_payload(
                 IF scan.payload_lines = << >> THEN Trim(event)
                 ELSE Join(scan.payload_lines, <<LF>>), a),
             scan.payload_lines = << >>)
\* process_event of stream_chat_model after the scan of the lines
chat_process_scanned(scan, event, a) ==
    IF scan.done THEN [a |-> a, done |-> TRUE, err |-> None]
    ELSE IF scan.payload_lines = << >> /\ Trim(event) = << >>
    THEN [a |-> a, done |-> FALSE, err |-> None]
    ELSE event_outcome(
             chat_handle_payload(
                 IF scan.payload_lines = << >> THEN Trim(event)
                 ELSE Join(scan.payload_lines, <<LF>>), a),
             scan.payload_lines = << >>)

\* the closure process_event of stream_chat_model: [a, done, err]
chat_process_event(event, a) ==
    chat_process_scanned(scan_lines(Lines(event), 1, << >>), event, a)

\* ------------------------------------------------------------ chunks

\* String::from_utf8_lossy on the bytes of one chunk: the two bytes of
\* U+00E9 give the character when they are adjacent in the chunk; a lead
\* byte or a continuation byte on its own gives U+FFFD
RECURSIVE from_utf8_lossy(_)
from_utf8_lossy(bytes) ==
    IF bytes = << >> THEN << >>
    ELSE IF Head(bytes) = B_C3 /\ Len(bytes) >= 2 /\ bytes[2] = B_A9
    THEN <<CH_E9>> \o from_utf8_lossy(Tail(Tail(bytes)))
    ELSE IF Head(bytes) \in {B_C3, B_A9}
    THEN <<CH_FFFD>> \o from_utf8_lossy(Tail(bytes))
    ELSE <<Head(bytes)>> \o from_utf8_lossy(Tail(bytes))

\* piece.replace("\r\n", "\n")
RECURSIVE replace_crlf(_)
replace_crlf(piece) ==
    IF piece = << >> THEN << >>
    ELSE IF Head(piece) = CR /\ Len(piece) >= 2 /\ piece[2] = LF
    THEN <<LF>> \o replace_crlf(Tail(Tail(piece)))
    ELSE <<Head(piece)>> \o replace_crlf(Tail(piece))

\* carry.find("\n\n"): the index of the first LF followed by LF, 0 for None
find_blank(carry) ==
    IF \E i \in 1..(Len(carry) - 1) : carry[i] = LF /\ carry[i + 1] = LF
    THEN CHOOSE i \in 1..(Len(carry) - 1) :
            /\ carry[i] = LF /\ carry[i + 1] = LF
            /\ \A j \in 1..(i - 1) : ~(carry[j] = LF /\ carry[j + 1] = LF)
    ELSE 0

\* the inner while loop of stream_responses: [carry, a, done, err]
RECURSIVE responses_drain(_, _)
RECURSIVE responses_drain_at(_, _, _)
RECURSIVE responses_drain_next(_, _)
responses_drain(carry, a) == responses_drain_at(find_blank(carry), carry, a)
\* idx is the result of carry.find("\n\n")
responses_drain_at(idx, carry, a) ==
    IF idx = 0 THEN [carry |-> carry, a |-> a, done |-> FALSE, err |-> None]
    ELSE responses_drain_next(responses_process_event(SubSeq(carry, 1, idx - 1), a),
                              SubSeq(carry, idx + 2, Len(carry)))
\* r is the outcome of process_event, carry what follows the block
responses_drain_next(r, carry) ==
    IF r.err # None THEN [carry |-> carry, a |-> r.a, done |-> FALSE, err |-> r.err]
    ELSE IF r.done THEN [carry |-> carry, a |-> r.a, done |-> TRUE, err |-> None]
    ELSE responses_drain(carry, r.a)

\* the inner while loop of stream_chat_model: [carry, a, done, err]
RECURSIVE chat_drain(_, _)
RECURSIVE chat_drain_at(_, _, _)
RECURSIVE chat_drain_next(_, _)
chat_drain(carry, a) == chat_drain_at(find_blank(carry), carry, a)
\* idx is the result of carry.find("\n\n")
chat_drain_at(idx, carry, a) ==
    IF idx = 0 THEN [carry |-> carry, a |-> a, done |-> FALSE, err |-> None]
    ELSE chat_drain_next(chat_process_event(SubSeq(carry, 1, idx - 1), a),
                         SubSeq(carry, idx + 2, Len(carry)))
\* r is the outcome of process_event, carry what follows the block
chat_drain_next(r, carry) ==
    IF r.err # None THEN [carry |-> carry, a |-> r.a, done |-> FALSE, err |-> r.err]
    ELSE IF r.done THEN [carry |-> carry, a |-> r.a, done |-> TRUE, err |-> None]
    ELSE chat_drain(carry, r.a)

\* the body of the outer loop for one chunk
responses_chunk(bytes, carry, a) ==
    responses_drain(carry \o replace_crlf(from_utf8_lossy(bytes)), a)

chat_chunk(bytes, carry, a) ==
    chat_drain(carry \o replace_crlf(from_utf8_lossy(bytes)), a)

\* the flush of the trailing block after the loop: the outcome is dropped
\* (responses_flush_skipped: carry is left unprocessed)
responses_flush_skipped(carry, a) == a
responses_flush(carry, a) ==
    IF Trim(carry) # << >> THEN responses_process_event(carry, a).a ELSE a

chat_flush(carry, a) ==
    IF Trim(carry) # << >> THEN chat_process_event(carry, a).a ELSE a

\* ------------------------------------------------------------ results

WebSearchResult(message, citations, displayed) ==
    [message |-> message, citations |-> citations, displayed |-> displayed]

\* the first fallback with a final_response; parsed is the outcome of
\* parse_response_output on it
responses_fallback_parsed(resp, parsed) ==
    collect_citations(resp,
        [parsed.a EXCEPT !.final_text =
            IF parsed.text # << >> THEN parsed.text
            ELSE UnwrapOr(extract_text_from_response(resp), @)])

\* the first fallback trying the snapshot before the streamed text
responses_fallback_snapshot_first(a) ==
    IF a.final_text # << >> THEN a
    ELSE IF a.final_response # None
    THEN responses_fallback_parsed(a.final_response[1],
             parse_response_output(a.final_response[1], a))
    ELSE IF Trim(a.text_buffer) # << >> THEN [a EXCEPT !.final_text = a.text_buffer]
    ELSE a
\* the first fallback of stream_responses (final_text.is_empty())
responses_fallback(a) ==
    IF a.final_text # << >> THEN a
    ELSE IF Trim(a.text_buffer) # << >> THEN [a EXCEPT !.final_text = a.text_buffer]
    ELSE IF a.final_response = None THEN a
    ELSE responses_fallback_parsed(a.final_response[1],
             parse_response_output(a.final_response[1], a))

\* the second fallback without its last branch, the JSON text of resp
responses_fallback_join_segments_only(resp, segments, a) ==
    [a EXCEPT !.final_text = IF segments # << >> THEN Join(segments, <<BLANKLINE>>)
                             ELSE @]
\* the second fallback with a final_response and its segments
responses_fallback_join(resp, segments, a) ==
    [a EXCEPT !.final_text = IF segments # << >> THEN Join(segments, <<BLANKLINE>>)
                             ELSE to_string(resp)]

\* the second fallback of stream_responses
responses_fallback_segments(a) ==
    IF a.final_text # << >> \/ a.final_response = None THEN a
    ELSE responses_fallback_join(a.final_response[1],
             extract_text_segments_list(a.final_response[1]), a)

\* the state stream_responses builds its result from
responses_resolve(a) == responses_fallback_segments(responses_fallback(a))

\* text_buffer when the content of the final message is not tried
chat_message_content_skipped(tb, content) == tb
\* text_buffer after the content of the final message was tried
chat_message_content(tb, content) ==
    IF tb = << >> /\ content # None /\ content[1] # << >> THEN content[1] ELSE tb

\* the text of the final message put in the place of text_buffer
chat_message_segments_always(tb, message, segments) ==
    IF segments # << >> THEN Join(segments, <<BLANKLINE>>)
    ELSE to_string(message)
\* text_buffer after the segments of the final message, then its JSON text
chat_message_segments(tb, message, segments) ==
    IF tb # << >> THEN tb
    ELSE IF segments # << >> THEN Join(segments, <<BLANKLINE>>)
    ELSE to_string(message)

\* the use of final_message after the loop
chat_resolve_message(message, a) ==
    collect_citations(message,
        [a EXCEPT !.text_buffer =
            chat_message_segments(
                chat_message_content(@, extract_text_from_message(message)),
                message, extract_text_segments_list(message))])

\* the state stream_chat_model builds its result from
chat_resolve(a) ==
    IF a.final_message = None THEN a ELSE chat_resolve_message(a.final_message[1], a)

\* ------------------------------------------------------------ inputs

\* the number of event blocks of a stream
MaxBlocks == 2
\* the sink fails at its call number 1..MaxSinkFail, or never (0)
MaxSinkFail == 2
\* the number of event blocks of a stream of the framing specification
MaxFrameBlocks == 2

\* the number of event blocks of a stream of the transport specification
MaxTransportBlocks == 2

\* the statuses of a response: StatusCode with its Display, "<code> <reason>"
StatusOK == [code |-> 200, display |-> <<"200 OK">>]
Statuses ==
    {StatusOK,
     [code |-> 204, display |-> <<"204 No Content">>],
     [code |-> 404, display |-> <<"404 Not Found">>],
     [code |-> 500, display |-> <<"500 Internal Server Error">>]}

EolLF == <<LF>>
EolCRLF == <<CR, LF>>

\* n blocks, each followed by a blank line written with the line ending eol
RECURSIVE Terminated(_, _, _)
Terminated(blocks, eol, n) ==
    IF n = 0 THEN {<< >>}
    ELSE {b \o eol \o eol \o s : b \in blocks, s \in Terminated(blocks, eol, n - 1)}

\* the streams of 1..max blocks; the last block may lack its blank line
Streams(blocks, eol, max) ==
    UNION {Terminated(blocks, eol, n) \cup
           {s \o b : s \in Terminated(blocks, eol, n - 1), b \in blocks} : n \in 1..max}

ResponsesBlocks ==
    {<<DATA, SP, T_Hello>>, <<DATA, T_Blank>>, <<DATA, T_Parts>>, <<DATA, T_Message>>,
     <<DATA, T_Completed>>, <<DATA, T_CompletedBare>>, <<DATA, T_Annotation>>,
     <<DATA, T_Error>>}

ChatBlocks ==
    {<<DATA, SP, K_Hi>>, <<DATA, K_Blank>>, <<DATA, K_Parts>>, <<DATA, K_Final>>,
     <<DATA, K_FinalEmpty>>, <<DATA, K_FinalParts>>, <<DATA, K_Cite>>, <<DATA, K_Plain>>}

ResponsesFrameBlocks ==
    {<<DATA, SP, T_Hello>>, <<DATA, T_World, SP>>, <<T_Hello>>, <<DATA, T_Bad>>,
     <<DATA, SP, DONE>>, <<DATA, T_AccentPre, B_C3, B_A9, T_AccentPost>>}

ChatFrameBlocks ==
    {<<DATA, SP, K_Hi>>, <<K_Hi>>, <<DATA, T_Bad>>, <<DATA, SP, DONE>>}

\* the number of event blocks of a stream of the events specification
MaxEventBlocks == 2
\* the number of event blocks of a stream of the quiet specification
MaxQuietBlocks == 2

\* streams of snapshots, message events and final messages
ResponsesEventBlocks ==
    {<<DATA, T_Completed>>, <<DATA, SP, T_Completed2>>, <<DATA, T_CompletedBare>>,
     <<DATA, T_Message>>, <<DATA, T_Ignored>>, <<DATA, T_Annotation>>}

ChatEventBlocks ==
    {<<DATA, SP, K_Final>>, <<DATA, K_FinalParts>>, <<DATA, K_FinalEmpty>>,
     <<DATA, K_Plain>>, <<DATA, K_Hi>>, <<DATA, K_Empty>>}

\* blocks without text, URL or snapshot: blank, comment, empty data: line,
\* ignored type (as a data: payload and raw), empty fragment, no choice
ResponsesQuietBlocks ==
    {<<SP>>, <<COMMENT>>, <<DATA, SP>>, <<DATA, T_Ignored>>, <<T_Ignored>>,
     <<DATA, T_Empty>>}

ChatQuietBlocks ==
    {<<SP>>, <<COMMENT>>, <<DATA, SP>>, <<DATA, T_Ignored>>, <<DATA, K_Empty>>,
     <<DATA, K_NoChoice>>}

\* the number of event blocks of a stream of the lines specification
MaxLineBlocks == 2

\* blocks of several lines: a document on two data: lines, the same among
\* an event line, an empty data: line and a comment, two documents on two
\* data: lines, a data: marker that does not start its line, one data: line
ResponsesLineBlocks ==
    {<<DATA, SP, T_HalfA, SP, LF, DATA, T_HalfB>>,
     <<EVENT, LF, DATA, T_HalfA, LF, DATA, LF, COMMENT, LF, DATA, SP, T_HalfB>>,
     <<DATA, T_Hello, LF, DATA, T_World>>,
     <<SP, DATA, T_World>>,
     <<DATA, T_World>>}

ChatLineBlocks ==
    {<<DATA, SP, K_HalfA, SP, LF, DATA, K_HalfB>>,
     <<EVENT, LF, DATA, K_HalfA, LF, DATA, LF, COMMENT, LF, DATA, SP, K_HalfB>>,
     <<DATA, K_Hi, LF, DATA, K_Blank>>,
     <<SP, DATA, K_Blank>>,
     <<DATA, K_Blank>>}

\* the number of event blocks of a stream of the raw specification
MaxRawBlocks == 2

\* blocks without a data: line: documents of each kind, one between
\* spaces, and texts that are not JSON
ResponsesRawBlocks ==
    {<<T_Hello>>, <<SP, T_Parts, SP>>, <<T_Completed>>, <<T_Error>>, <<COMMENT>>}

ChatRawBlocks ==
    {<<K_Hi>>, <<SP, K_Parts, SP>>, <<K_Cite>>, <<K_Final>>, <<T_Bad>>}

\* the number of event blocks of a stream of the kinds specification
MaxKindBlocks == 2

\* one event of each kind the match of stream_responses tells apart, and
\* payloads without a string type
ResponsesKindBlocks ==
    {<<DATA, T_Hello>>, <<DATA, T_Blank>>, <<DATA, T_Annotation>>, <<DATA, T_Future>>,
     <<DATA, T_Completed>>, <<DATA, T_Message>>, <<DATA, T_MessageBare>>,
     <<DATA, T_OutputText>>, <<DATA, T_Untyped>>, <<DATA, T_UntypedEmpty>>,
     <<DATA, T_UntypedOther>>}

\* chunks with no, one and two choices
ChatKindBlocks ==
    {<<DATA, K_Hi>>, <<DATA, K_Two>>, <<DATA, K_SecondOnly>>, <<DATA, K_NoChoice>>,
     <<DATA, K_Final>>}

\* the number of event blocks of a stream of the citations specification
MaxCiteBlocks == 2

\* events and chunks with URL-bearing objects, and a fragment
ResponsesCiteBlocks ==
    {<<DATA, T_NullUrl>>, <<DATA, T_Sources>>, <<DATA, T_NestedCite>>,
     <<DATA, T_NestedDup>>, <<DATA, T_Completed>>, <<DATA, T_Hello>>}

ChatCiteBlocks ==
    {<<DATA, K_Cite>>, <<DATA, K_Cited>>, <<DATA, K_FinalParts>>, <<DATA, K_Hi>>}

\* the number of event blocks of a stream of the walk specification
MaxWalkBlocks == 2

\* fragments and outputs of several shapes
ResponsesWalkBlocks ==
    {<<DATA, T_WalkTypes>>, <<DATA, T_DeepText>>, <<DATA, T_Parts>>,
     <<DATA, T_UntypedParts>>, <<DATA, T_Untyped>>}

ChatWalkBlocks ==
    {<<DATA, K_Parts>>, <<DATA, K_Nested>>, <<DATA, K_DeepText>>, <<DATA, K_Hi>>}

\* the number of event blocks of a stream of the tail specification
MaxTailBlocks == 2

\* blocks with the sentinel after and before a payload line, and blocks
\* that fail wherever they stand: a text that is not JSON, an error event,
\* fragments for a sink that fails, among them a fragment of two lines (on
\* a data: line and raw) and one of the size of the buffer of standard output
ResponsesTailBlocks ==
    {<<DATA, T_Cited, LF, DATA, DONE>>, <<DATA, SP, DONE, SP, LF, DATA, T_Cited>>,
     <<DATA, T_Bad>>, <<DATA, T_Error>>, <<DATA, T_Parts>>, <<DATA, T_World>>,
     <<DATA, T_Lines>>, <<T_Lines>>, <<DATA, T_Big>>}

ChatTailBlocks ==
    {<<DATA, K_Cited, LF, DATA, DONE>>, <<DATA, SP, DONE, SP, LF, DATA, K_Cited>>,
     <<DATA, T_Bad>>, <<DATA, K_Parts>>, <<DATA, K_Plain>>,
     <<DATA, K_Lines>>, <<K_Lines>>}

\* ------------------------------------------------------------ the state machine

VARIABLES
    use_tools,       \* the adapter: TRUE stream_responses, FALSE stream_chat_model
    status,          \* the status of the response
    input,           \* the bytes of the response body
    rest,            \* the bytes the transport has not yielded yet
    pc,              \* "request", "error_text", "await", "flush", "resolve",
                     \* "returned", "failed", "panicked";
                     \* "idle" where the calls are those of runs
    done_seen,       \* the loop was left by the sentinel's break
    carry,
    text_buffer,
    final_response,
    final_text,
    final_message,
    displayed,
    citations,
    seen_citations,
    sunk,
    sink_failed,
    sink_fail_at,
    stdout_takes_line, \* at the first failing call, standard output takes the
                       \* lines print! writes and fails at the write of flush()
    stdout_recovers,   \* standard output fails at one call only
    handled,
    result,          \* Some(WebSearchResult) once the call returned Ok
    error,           \* Some(message) once the call returned Err
    runs             \* the calls in progress at the same time, each with its
                     \* own locals (SpecPair); << >> where one call is modelled

vars == <<use_tools, status, input, rest, pc, done_seen, carry, text_buffer, final_response,
          final_text, final_message, displayed, citations, seen_citations, sunk,
          sink_failed, sink_fail_at, stdout_takes_line, stdout_recovers, handled, result, error, runs>>

\* the locals as the record the handlers work on
Run ==
    [text_buffer |-> text_buffer,
     final_response |-> final_response,
     final_text |-> final_text,
     final_message |-> final_message,
     displayed |-> displayed,
     citations |-> citations,
     seen_citations |-> seen_citations,
     sunk |-> sunk,
     sink_failed |-> sink_failed,
     sink_fail_at |-> sink_fail_at,
     stdout_takes_line |-> stdout_takes_line,
     stdout_recovers |-> stdout_recovers,
     handled |-> handled]

SetRun(a) ==
    /\ text_buffer' = a.text_buffer
    /\ final_response' = a.final_response
    /\ final_text' = a.final_text
    /\ final_message' = a.final_message
    /\ displayed' = a.displayed
    /\ citations' = a.citations
    /\ seen_citations' = a.seen_citations
    /\ sunk' = a.sunk
    /\ sink_failed' = a.sink_failed
    /\ handled' = a.handled

\* the state at the start of the loop: the status was a success,
\* NewRun(fail_at), nothing read yet
InitRun(tools, bytes, fail_at, takes_line, recovers) ==
    /\ use_tools = tools
    /\ status = StatusOK
    /\ input = bytes
    /\ rest = bytes
    /\ pc = "await"
    /\ done_seen = FALSE
    /\ carry = << >>
    /\ text_buffer = << >>
    /\ final_response = None
    /\ final_text = << >>
    /\ final_message = None
    /\ displayed = FALSE
    /\ citations = << >>
    /\ seen_citations = {}
    /\ sunk = << >>
    /\ sink_failed = FALSE
    /\ sink_fail_at = fail_at
    /\ stdout_takes_line = takes_line
    /\ stdout_recovers = recovers
    /\ handled = << >>
    /\ result = None
    /\ error = None
    /\ runs = << >>

\* (the streams of Init make no call of the sink after one that failed and
\* send it no text with a line feed: what standard output does beyond the
\* failure of that call is not told apart, and is fixed)
Init ==
    \E tools \in BOOLEAN, fail_at \in 0..MaxSinkFail :
        \E bytes \in Streams(IF tools THEN ResponsesBlocks ELSE ChatBlocks, EolLF, MaxBlocks) :
            InitRun(tools, bytes, fail_at, FALSE, TRUE)

InitFraming ==
    \E tools \in BOOLEAN, eol \in {EolLF, EolCRLF} :
        \E bytes \in Streams(IF tools THEN ResponsesFrameBlocks ELSE ChatFrameBlocks,
                             eol, MaxFrameBlocks) :
            InitRun(tools, bytes, 0, FALSE, TRUE)

InitEvents ==
    \E tools \in BOOLEAN :
        \E bytes \in Streams(IF tools THEN ResponsesEventBlocks ELSE ChatEventBlocks,
                             EolLF, MaxEventBlocks) :
            InitRun(tools, bytes, 0, FALSE, TRUE)

InitQuiet ==
    \E tools \in BOOLEAN :
        \E bytes \in Streams(IF tools THEN ResponsesQuietBlocks ELSE ChatQuietBlocks,
                             EolLF, MaxQuietBlocks) :
            InitRun(tools, bytes, 0, FALSE, TRUE)

InitLines ==
    \E tools \in BOOLEAN :
        \E bytes \in Streams(IF tools THEN ResponsesLineBlocks ELSE ChatLineBlocks,
                             EolLF, MaxLineBlocks) :
            InitRun(tools, bytes, 0, FALSE, TRUE)

InitRaw ==
    \E tools \in BOOLEAN, fail_at \in 0..MaxSinkFail, takes_line \in BOOLEAN,
       recovers \in BOOLEAN :
        \E bytes \in Streams(IF tools THEN ResponsesRawBlocks ELSE ChatRawBlocks,
                             EolLF, MaxRawBlocks) :
            /\ fail_at = 0 => ~takes_line /\ recovers
            /\ InitRun(tools, bytes, fail_at, takes_line, recovers)

InitKinds ==
    \E tools \in BOOLEAN :
        \E bytes \in Streams(IF tools THEN ResponsesKindBlocks ELSE ChatKindBlocks,
                             EolLF, MaxKindBlocks) :
            InitRun(tools, bytes, 0, FALSE, TRUE)

InitCites ==
    \E tools \in BOOLEAN :
        \E bytes \in Streams(IF tools THEN ResponsesCiteBlocks ELSE ChatCiteBlocks,
                             EolLF, MaxCiteBlocks) :
            InitRun(tools, bytes, 0, FALSE, TRUE)

InitWalk ==
    \E tools \in BOOLEAN :
        \E bytes \in Streams(IF tools THEN ResponsesWalkBlocks ELSE ChatWalkBlocks,
                             EolLF, MaxWalkBlocks) :
            InitRun(tools, bytes, 0, FALSE, TRUE)

InitTail ==
    \E tools \in BOOLEAN, fail_at \in 0..MaxSinkFail, takes_line \in BOOLEAN,
       recovers \in BOOLEAN :
        \E bytes \in Streams(IF tools THEN ResponsesTailBlocks ELSE ChatTailBlocks,
                             EolLF, MaxTailBlocks) :
            /\ fail_at = 0 => ~takes_line /\ recovers
            /\ InitRun(tools, bytes, fail_at, takes_line, recovers)

\* the loop going on after the loop body returned an error
AfterChunk_continuing(r) ==
    /\ carry' = r.carry
    /\ SetRun(r.a)
    /\ done_seen' = r.done
    /\ pc' = IF r.done THEN "flush" ELSE "await"
    /\ error' = r.err
    /\ UNCHANGED <<use_tools, status, runs, input, sink_fail_at, stdout_takes_line, stdout_recovers, result>>
\* the outcome of the loop body on one chunk: the next await, the end of the
\* loop at the sentinel, the error returned by `?`, or the unwinding of a
\* panic of the sink, after which the call returns neither Ok nor Err
AfterChunk(r) ==
    /\ carry' = r.carry
    /\ SetRun(r.a)
    /\ done_seen' = r.done
    /\ pc' = IF Panicked(r.a) THEN "panicked"
             ELSE IF r.err # None THEN "failed" ELSE IF r.done THEN "flush" ELSE "await"
    /\ error' = IF Panicked(r.a) THEN None ELSE r.err
    /\ UNCHANGED <<use_tools, status, runs, input, sink_fail_at, stdout_takes_line, stdout_recovers, result>>

\* Ok(WebSearchResult { message, citations, displayed }): the message is
\* final_text in stream_responses, text_buffer in stream_chat_model
ResultOf(a, tools) ==
    WebSearchResult(IF tools THEN a.final_text ELSE a.text_buffer, a.citations, a.displayed)

Returns(a, tools) ==
    /\ SetRun(a)
    /\ result' = Some(ResultOf(a, tools))
    /\ pc' = "returned"

\* stream.next() yields the next n bytes; the loop body of stream_responses
ResponsesChunk ==
    /\ use_tools /\ pc = "await" /\ rest # << >>
    /\ \E n \in 1..Len(rest) :
         /\ rest' = SubSeq(rest, n + 1, Len(rest))
         /\ AfterChunk(responses_chunk(SubSeq(rest, 1, n), carry, Run))

\* stream.next() yields None: the loop of stream_responses ends
ResponsesEnd ==
    /\ use_tools /\ pc = "await" /\ rest = << >>
    /\ pc' = "flush"
    /\ UNCHANGED <<use_tools, status, runs, input, rest, done_seen, carry, text_buffer, final_response,
                   final_text, final_message, displayed, citations, seen_citations, sunk,
                   sink_failed, sink_fail_at, stdout_takes_line, stdout_recovers, handled, result, error>>

\* the trailing block of stream_responses: its Result is dropped, a panic
\* of the sink unwinds
ResponsesFlush ==
    /\ use_tools /\ pc = "flush"
    /\ SetRun(responses_flush(carry, Run))
    /\ pc' = IF Panicked(responses_flush(carry, Run)) THEN "panicked" ELSE "resolve"
    /\ UNCHANGED <<use_tools, status, runs, input, rest, done_seen, carry, sink_fail_at, stdout_takes_line, stdout_recovers, result, error>>

\* the fallbacks and the result of stream_responses
ResponsesReturn ==
    /\ use_tools /\ pc = "resolve"
    /\ Returns(responses_resolve(Run), TRUE)
    /\ UNCHANGED <<use_tools, status, runs, input, rest, done_seen, carry, sink_fail_at, stdout_takes_line, stdout_recovers, error>>

\* stream.next() yields the next n bytes; the loop body of stream_chat_model
ChatChunkStep ==
    /\ ~use_tools /\ pc = "await" /\ rest # << >>
    /\ \E n \in 1..Len(rest) :
         /\ rest' = SubSeq(rest, n + 1, Len(rest))
         /\ AfterChunk(chat_chunk(SubSeq(rest, 1, n), carry, Run))

\* stream.next() yields None: the loop of stream_chat_model ends
ChatEnd ==
    /\ ~use_tools /\ pc = "await" /\ rest = << >>
    /\ pc' = "flush"
    /\ UNCHANGED <<use_tools, status, runs, input, rest, done_seen, carry, text_buffer, final_response,
                   final_text, final_message, displayed, citations, seen_citations, sunk,
                   sink_failed, sink_fail_at, stdout_takes_line, stdout_recovers, handled, result, error>>

\* the trailing block of stream_chat_model: its Result is dropped, a panic
\* of the sink unwinds
ChatFlush ==
    /\ ~use_tools /\ pc = "flush"
    /\ SetRun(chat_flush(carry, Run))
    /\ pc' = IF Panicked(chat_flush(carry, Run)) THEN "panicked" ELSE "resolve"
    /\ UNCHANGED <<use_tools, status, runs, input, rest, done_seen, carry, sink_fail_at, stdout_takes_line, stdout_recovers, result, error>>

\* the final message and the result of stream_chat_model
ChatReturn ==
    /\ ~use_tools /\ pc = "resolve"
    /\ Returns(chat_resolve(Run), FALSE)
    /\ UNCHANGED <<use_tools, status, runs, input, rest, done_seen, carry, sink_fail_at, stdout_takes_line, stdout_recovers, error>>

Next ==
    \/ ResponsesChunk
    \/ ResponsesEnd
    \/ ResponsesFlush
    \/ ResponsesReturn
    \/ ChatChunkStep
    \/ ChatEnd
    \/ ChatFlush
    \/ ChatReturn

Spec == Init /\ [][Next]_vars

SpecFraming == InitFraming /\ [][Next]_vars

\* a step of the call: a chunk is consumed or the call moves on
Moves == pc' # pc \/ Len(rest') < Len(rest)

\* the runs of SpecFraming in which the call is not suspended for ever: the
\* transport yields its next chunk or its end, and the task goes on. This is
\* weak fairness of Next, WF_vars(Next), written out: a step of Next is
\* enabled exactly in the states where the call has not returned, and a
\* step of Next that is not a stuttering step is a step of Moves.
SpecLive ==
    /\ InitFraming /\ [][Next]_vars
    /\ ([]<>(pc \in {"returned", "failed"}) \/ []<><<Moves>>_vars)

\* the runs over streams of snapshots and final messages
SpecEvents == InitEvents /\ [][Next]_vars

\* the runs over streams without recognizable content
SpecQuiet == InitQuiet /\ [][Next]_vars

\* the runs over streams whose blocks have several lines
SpecLines == InitLines /\ [][Next]_vars

\* the runs over streams whose blocks have no data: line
SpecRaw == InitRaw /\ [][Next]_vars

\* the runs over streams of events of every kind
SpecKinds == InitKinds /\ [][Next]_vars

\* the runs over streams with URL-bearing objects
SpecCites == InitCites /\ [][Next]_vars

\* the runs over streams of fragments and outputs of several shapes
SpecWalk == InitWalk /\ [][Next]_vars

\* the runs over streams with sentinel blocks of two lines and failing blocks
SpecTail == InitTail /\ [][Next]_vars

\* ------------------------------------------------------------ the transport

\* StatusCode::is_success: the codes 200..299
is_success(st) == st.code >= 200 /\ st.code < 300

\* anyhow!("Web search API error ({}): {}", status, text)
api_error(st, text) == <<"Web search API error (">> \o st.display \o <<"): ">> \o text

\* the state when the response arrived: its status is not checked yet
InitTransport ==
    \E tools \in BOOLEAN, st \in Statuses :
        \E bytes \in Streams(IF tools THEN ResponsesBlocks ELSE ChatBlocks,
                             EolLF, MaxTransportBlocks) :
            /\ use_tools = tools
            /\ status = st
            /\ input = bytes
            /\ rest = bytes
            /\ pc = "request"
            /\ done_seen = FALSE
            /\ carry = << >>
            /\ text_buffer = << >>
            /\ final_response = None
            /\ final_text = << >>
            /\ final_message = None
            /\ displayed = FALSE
            /\ citations = << >>
            /\ seen_citations = {}
            /\ sunk = << >>
            /\ sink_failed = FALSE
            /\ sink_fail_at = 0
    /\ stdout_takes_line = FALSE
    /\ stdout_recovers = TRUE
            /\ stdout_takes_line = FALSE
            /\ stdout_recovers = TRUE
            /\ handled = << >>
            /\ result = None
            /\ error = None
            /\ runs = << >>

\* the check of the status, of both adapters: on a success the loop
\* starts; on a status that is not a success the call goes on to read the
\* body as text, response.text().await, where the task can be suspended
CheckStatus ==
    /\ pc = "request"
    /\ pc' = IF is_success(status) THEN "await" ELSE "error_text"
    /\ UNCHANGED <<use_tools, status, runs, input, rest, done_seen, carry, text_buffer,
                   final_response, final_text, final_message, displayed, citations,
                   seen_citations, sunk, sink_failed, sink_fail_at, stdout_takes_line, stdout_recovers, handled, result, error>>

\* response.text().await is ready, of both adapters: the body as text, ""
\* when reading it failed (unwrap_or_default), and the call returns the
\* error with the status and the text
ReadErrorText ==
    /\ pc = "error_text"
    /\ pc' = "failed"
    /\ \E text \in {from_utf8_lossy(input), << >>} :
         /\ error' = Some(api_error(status, text))
         /\ rest' = IF text = << >> THEN rest ELSE << >>
    /\ UNCHANGED <<use_tools, status, runs, input, done_seen, carry, text_buffer, final_response,
                   final_text, final_message, displayed, citations, seen_citations, sunk,
                   sink_failed, sink_fail_at, stdout_takes_line, stdout_recovers, handled, result>>

\* the loop going on after stream.next() yielded an error
ChunkError_continuing ==
    /\ pc = "await"
    /\ error = None
    /\ error' = Some(<<"Failed to read response chunk">>)
    /\ UNCHANGED <<use_tools, status, runs, input, rest, pc, done_seen, carry, text_buffer,
                   final_response, final_text, final_message, displayed, citations,
                   seen_citations, sunk, sink_failed, sink_fail_at, stdout_takes_line, stdout_recovers, handled, result>>
\* stream.next() yields an error, of both adapters: the `?` returns it with
\* its context
ChunkError ==
    /\ pc = "await"
    /\ pc' = "failed"
    /\ error' = Some(<<"Failed to read response chunk">>)
    /\ UNCHANGED <<use_tools, status, runs, input, rest, done_seen, carry, text_buffer,
                   final_response, final_text, final_message, displayed, citations,
                   seen_citations, sunk, sink_failed, sink_fail_at, stdout_takes_line, stdout_recovers, handled, result>>

NextTransport ==
    \/ CheckStatus
    \/ ReadErrorText
    \/ ChunkError
    \/ Next

\* the runs from the arrival of the response, over a transport that can fail
SpecTransport == InitTransport /\ [][NextTransport]_vars

\* ------------------------------------------------------------ two calls

\* the number of event blocks of the stream of each of two calls
MaxPairBlocks == 1

\* the blocks of the streams of two calls: a fragment with a URL, the URL
\* the same in both adapters
PairBlocks(tools) == IF tools THEN {<<DATA, T_Cited>>} ELSE {<<DATA, K_Cited>>}

\* a call at the start of its loop: its adapter, the body of its response,
\* its locals (a, carry). alone is a history variable: the outcome of the
\* loop body, [carry, a, done, err], of this call running on its own over
\* the chunks given so far
NewCall(tools, bytes) ==
    [use_tools |-> tools, input |-> bytes, rest |-> bytes,
     pc |-> "await", carry |-> << >>, a |-> NewRun(0, FALSE, TRUE), result |-> None, error |-> None,
     alone |-> [carry |-> << >>, a |-> NewRun(0, FALSE, TRUE), done |-> FALSE, err |-> None]]

\* two calls, of any adapters, on the same client
InitPair ==
    /\ \E t1 \in BOOLEAN, t2 \in BOOLEAN :
         \E b1 \in Streams(PairBlocks(t1), EolLF, MaxPairBlocks),
            b2 \in Streams(PairBlocks(t2), EolLF, MaxPairBlocks) :
              runs = <<NewCall(t1, b1), NewCall(t2, b2)>>
    /\ use_tools = FALSE
    /\ status = StatusOK
    /\ input = << >>
    /\ rest = << >>
    /\ pc = "idle"
    /\ done_seen = FALSE
    /\ carry = << >>
    /\ text_buffer = << >>
    /\ final_response = None
    /\ final_text = << >>
    /\ final_message = None
    /\ displayed = FALSE
    /\ citations = << >>
    /\ seen_citations = {}
    /\ sunk = << >>
    /\ sink_failed = FALSE
    /\ sink_fail_at = 0
    /\ stdout_takes_line = FALSE
    /\ stdout_recovers = TRUE
    /\ handled = << >>
    /\ result = None
    /\ error = None

\* the locals when seen_citations is one set for all the calls
CallLocals_shared(i) ==
    [runs[i].a EXCEPT !.seen_citations = runs[1].a.seen_citations \cup runs[2].a.seen_citations]
\* the locals of call i: each call declares its own
CallLocals(i) == runs[i].a

\* the call after its loop: the trailing block, the fallbacks, the result
CallReturned(c, a) ==
    [c EXCEPT !.a = a, !.result = Some(ResultOf(a, c.use_tools)), !.pc = "returned"]

\* the call after the loop body returned r for a chunk: the error returned,
\* the loop left at the sentinel, or the next await
CallAfterChunk(c, r) ==
    IF r.err # None
    THEN [c EXCEPT !.carry = r.carry, !.a = r.a, !.error = r.err, !.pc = "failed"]
    ELSE IF r.done
    THEN CallReturned([c EXCEPT !.carry = r.carry],
             IF c.use_tools THEN responses_resolve(responses_flush(r.carry, r.a))
             ELSE chat_resolve(chat_flush(r.carry, r.a)))
    ELSE [c EXCEPT !.carry = r.carry, !.a = r.a]

\* the transport of call i yields its next n bytes: one loop body of call i
CallChunk(i) ==
    /\ runs[i].pc = "await" /\ runs[i].rest # << >>
    /\ \E n \in 1..Len(runs[i].rest) :
         runs' = [runs EXCEPT ![i] =
             CallAfterChunk(
                 [@ EXCEPT !.rest = SubSeq(@, n + 1, Len(@)),
                           !.alone = IF runs[i].use_tools
                                     THEN responses_chunk(SubSeq(runs[i].rest, 1, n),
                                                          @.carry, @.a)
                                     ELSE chat_chunk(SubSeq(runs[i].rest, 1, n),
                                                     @.carry, @.a)],
                 IF runs[i].use_tools
                 THEN responses_chunk(SubSeq(runs[i].rest, 1, n), runs[i].carry, CallLocals(i))
                 ELSE chat_chunk(SubSeq(runs[i].rest, 1, n), runs[i].carry, CallLocals(i)))]
    /\ UNCHANGED <<use_tools, status, input, rest, pc, done_seen, carry, text_buffer,
                   final_response, final_text, final_message, displayed, citations,
                   seen_citations, sunk, sink_failed, sink_fail_at, stdout_takes_line, stdout_recovers, handled, result, error>>

\* the transport of call i yields None: call i runs to its return
CallEnd(i) ==
    /\ runs[i].pc = "await" /\ runs[i].rest = << >>
    /\ runs' = [runs EXCEPT ![i] =
           CallReturned(@,
               IF runs[i].use_tools
               THEN responses_resolve(responses_flush(runs[i].carry, CallLocals(i)))
               ELSE chat_resolve(chat_flush(runs[i].carry, CallLocals(i))))]
    /\ UNCHANGED <<use_tools, status, input, rest, pc, done_seen, carry, text_buffer,
                   final_response, final_text, final_message, displayed, citations,
                   seen_citations, sunk, sink_failed, sink_fail_at, stdout_takes_line, stdout_recovers, handled, result, error>>

\* the task of either call goes on from its await
NextPair ==
    \/ \E i \in 1..Len(runs) : CallChunk(i)
    \/ \E i \in 1..Len(runs) : CallEnd(i)

\* two calls whose loop bodies interleave in any order
SpecPair == InitPair /\ [][NextPair]_vars

\* ------------------------------------------------------------ whole runs

\* the call has returned
Finished == pc \in {"returned", "failed"}

\* what the call returned: Ok(result) or Err(error)
Outcome == <<result, error>>

\* the outcome of a call whose loop ran once, r being the outcome of the
\* loop body on the only chunk
OneChunkOutcome(r, tools) ==
    IF r.err # None THEN <<None, r.err>>
    ELSE IF tools
    THEN <<Some(ResultOf(responses_resolve(responses_flush(r.carry, r.a)), TRUE)), None>>
    ELSE <<Some(ResultOf(chat_resolve(chat_flush(r.carry, r.a)), FALSE)), None>>

\* the outcome of the call when the transport yields bytes as one chunk
WholeRun(tools, bytes, fail_at, takes_line, recovers) ==
    OneChunkOutcome(IF tools
                    THEN responses_chunk(bytes, << >>, NewRun(fail_at, takes_line, recovers))
                    ELSE chat_chunk(bytes, << >>, NewRun(fail_at, takes_line, recovers)),
                    tools)

\* the fragments the sink took: those it was invoked with, less a failed one
Delivered == IF sink_failed THEN SubSeq(sunk, 1, Len(sunk) - 1) ELSE sunk

\* ------------------------------------------------------------ C1

\* C1: chunk-boundary independence. Whatever the cut of the byte stream
\* into chunks, the call ends with the outcome (result or error) of the call
\* that receives the whole stream as one chunk.
C1_ChunkBoundaryIndependence ==
    Finished => Outcome = WholeRun(use_tools, input, sink_fail_at, stdout_takes_line, stdout_recovers)

\* ------------------------------------------------------------ C2

\* C2: once the sentinel's block was processed, what is left in carry is
\* discarded: the flush after the loop parses nothing, does not invoke the
\* sink, and changes no text, citation, snapshot or displayed flag.
C2_SentinelDiscardsRest ==
    [][done_seen /\ pc = "flush" =>
         UNCHANGED <<handled, sunk, text_buffer, citations, seen_citations,
                     final_response, final_text, final_message, displayed>>]_vars

\* ------------------------------------------------------------ C3

\* C3: a data: payload that is not JSON does not abort the call.
C3_BadPayloadNotFatal == ~(pc = "failed" /\ error = Some(InvalidJson))

\* ------------------------------------------------------------ C4

\* C4: a returned result has displayed = true exactly when the sink took at
\* least one (non-empty) fragment during the call.
C4_DisplayedIffForwarded ==
    pc = "returned" => (result[1].displayed <=> Delivered # << >>)

\* ------------------------------------------------------------ C5

\* C5: when a returned result has displayed = true, its message is the
\* concatenation, in order, of the fragments passed to the sink.
C5_DisplayedMessageIsStreamedText ==
    pc = "returned" /\ result[1].displayed => result[1].message = Concat(sunk)

\* ------------------------------------------------------------ C6

\* the payload parses to an event of type response.error
IsErrorEvent(payload) ==
    /\ from_str(payload) # None
    /\ GetStr(from_str(payload)[1], "type") = Some(<<"response.error">>)

\* error.message of a response.error event, "Unknown error" without it
ErrorMessageOf(payload) ==
    UnwrapOr(GetStr(UnwrapOr(Get(from_str(payload)[1], "error"), JNull), "message"),
             UnknownError)

\* C6: in the structured-event adapter, once a response.error event was
\* parsed the call has failed with the event's message: no result is
\* returned and nothing is processed after it.
C6_ErrorEventFatal ==
    \A i \in 1..Len(handled) :
        use_tools /\ IsErrorEvent(handled[i]) =>
            /\ pc = "failed"
            /\ error = Some(ErrorMessageOf(handled[i]))
            /\ i = Len(handled)

\* ------------------------------------------------------------ C7

\* C7: once an invocation of the sink failed, the call has failed with the
\* sink's error.
C7_SinkFailureFatal ==
    sink_failed => pc = "failed" /\ error = Some(SinkFailed)

\* ------------------------------------------------------------ C8

\* the event blocks that carry one delta event with a string fragment
StringDeltaBlocks == {<<DATA, SP, T_Hello>>, <<DATA, T_Blank>>}

\* the fragments of the delta events of a stream, in stream order
RECURSIVE DeltaFragments(_)
DeltaFragments(bytes) ==
    IF bytes = << >> THEN << >>
    ELSE (IF from_str(<<Head(bytes)>>) # None
          THEN <<AsStr(Get(from_str(<<Head(bytes)>>)[1], "delta"))[1]>>
          ELSE << >>)
         \o DeltaFragments(Tail(bytes))

\* C8: for a structured-event stream of delta events with string fragments
\* f1..fn, the result has message f1 + ... + fn, no citation, and displayed
\* is true iff some fragment is not empty.
C8_DeltaConcatenation ==
    /\ pc = "returned"
    /\ use_tools
    /\ input \in Streams(StringDeltaBlocks, EolLF, MaxBlocks)
    => /\ result[1].message = Concat(DeltaFragments(input))
       /\ result[1].citations = << >>
       /\ result[1].displayed <=> (\E i \in 1..Len(DeltaFragments(input)) :
                                      DeltaFragments(input)[i] # << >>)

\* ------------------------------------------------------------ C9

\* the URL-bearing objects of a value with their titles, one entry per
\* object, in the order of the walk (an object, then its members)
RECURSIVE Encountered(_)
RECURSIVE EncounteredEach(_, _, _)
Encountered(value) ==
    CASE value.t = "obj" ->
           (IF AsStr(FirstPresent(value, UrlKeys)) # None
            THEN <<Citation(AsStr(FirstPresent(value, UrlKeys))[1],
                            AsStr(FirstPresent(value, TitleKeys)))>>
            ELSE << >>) \o EncounteredEach(value.v, 1, TRUE)
      [] value.t = "arr" -> EncounteredEach(value.v, 1, FALSE)
      [] OTHER -> << >>
EncounteredEach(xs, i, members) ==
    IF i > Len(xs) THEN << >>
    ELSE Encountered(IF members THEN xs[i][2] ELSE xs[i])
         \o EncounteredEach(xs, i + 1, members)

\* the URL-bearing objects of the payloads parsed so far, in stream order
RECURSIVE EncounteredIn(_)
EncounteredIn(payloads) ==
    IF payloads = << >> THEN << >>
    ELSE Encountered(from_str(Head(payloads))[1]) \o EncounteredIn(Tail(payloads))

\* the entries whose url no earlier entry has
RECURSIVE FirstOccurrences(_, _)
FirstOccurrences(entries, urls) ==
    IF entries = << >> THEN << >>
    ELSE IF Head(entries).url \in urls THEN FirstOccurrences(Tail(entries), urls)
    ELSE <<Head(entries)>>
         \o FirstOccurrences(Tail(entries), urls \cup {Head(entries).url})

\* C9: in every state citations has no two entries with the same url, its
\* urls are those of seen_citations, and it lists the URLs in the order they
\* were first encountered, each with the title of its first occurrence.
C9_CitationsFirstSeen ==
    /\ \A i, j \in 1..Len(citations) : i # j => citations[i].url # citations[j].url
    /\ {citations[i].url : i \in 1..Len(citations)} = seen_citations
    /\ citations = FirstOccurrences(EncounteredIn(handled), {})

\* a URL was encountered twice, with two titles, and citations has the first
C9_Witness ==
    \E i, j \in 1..Len(EncounteredIn(handled)) :
        /\ i < j
        /\ EncounteredIn(handled)[i].url = EncounteredIn(handled)[j].url
        /\ EncounteredIn(handled)[i].title # EncounteredIn(handled)[j].title
        /\ \A k \in 1..(i - 1) :
               EncounteredIn(handled)[k].url # EncounteredIn(handled)[i].url
        /\ \E c \in 1..Len(citations) : citations[c] = EncounteredIn(handled)[i]
        /\ Len(citations) > 1
        /\ pc = "returned"

\* ------------------------------------------------------------ C10

\* final_response of stream_responses, final_message of stream_chat_model
Snapshot == IF use_tools THEN final_response ELSE final_message

\* the state is the one after the loop and the flush, and no text was
\* aggregated: the result text is to come from the snapshot
FallbackApplies ==
    /\ pc = "resolve"
    /\ Snapshot # None
    /\ IF use_tools THEN final_text = << >> /\ Trim(text_buffer) = << >>
       ELSE text_buffer = << >>

\* the text of the extraction that knows the snapshot's shape
ShapeText(snapshot) ==
    IF use_tools THEN parse_response_output(snapshot, Run).text
    ELSE UnwrapOr(extract_text_from_message(snapshot), << >>)

\* shape-specific extraction, then the segments joined by a blank line,
\* then the JSON text
ResolutionOrder(snapshot) ==
    IF ShapeText(snapshot) # << >> THEN ShapeText(snapshot)
    ELSE IF extract_text_segments_list(snapshot) # << >>
    THEN Join(extract_text_segments_list(snapshot), <<BLANKLINE>>)
    ELSE to_string(snapshot)

\* C10: a returned result has a non-empty message whenever a snapshot was
\* captured, and when no text was aggregated the message is the first
\* non-empty of: the shape-specific extraction, the segments joined by a
\* blank line, the JSON text of the snapshot.
C10_FallbackGuarantee ==
    /\ [](pc = "returned" /\ Snapshot # None => result[1].message # << >>)
    /\ [][FallbackApplies => result'[1].message = ResolutionOrder(Snapshot[1])]_vars

\* a result whose message is the JSON text of the snapshot
C10_Witness ==
    /\ pc = "returned"
    /\ Snapshot # None
    /\ result[1].message = to_string(Snapshot[1])
    /\ extract_text_segments_list(Snapshot[1]) = << >>

\* ------------------------------------------------------------ C11

\* C11: in stream_responses, when the stream has ended with final_text
\* empty and text_buffer not empty (whitespace included), the message of
\* the result is text_buffer.
C11_TextBufferBecomesMessage ==
    [][pc = "resolve" /\ use_tools /\ final_text = << >> /\ text_buffer # << >>
         => result'[1].message = text_buffer]_vars

\* ------------------------------------------------------------ C12

\* the elements of the array under key, none when there is no such array
Elements(value, key) ==
    IF AsArray(Get(value, key)) = None THEN << >> ELSE AsArray(Get(value, key))[1]

\* the payload is an event of this type
IsEventOfType(payload, type) ==
    /\ from_str(payload) # None
    /\ GetStr(from_str(payload)[1], "type") = Some(<<type>>)

\* the output_text parts of the message items of a response
RECURSIVE PartsOfItems(_)
PartsOfItems(items) ==
    IF items = << >> THEN << >>
    ELSE (IF GetStr(Head(items), "type") = Some(<<"message">>)
          THEN SelectSeq(Elements(Head(items), "content"),
                         LAMBDA part : GetStr(part, "type") = Some(<<"output_text">>))
          ELSE << >>)
         \o PartsOfItems(Tail(items))

\* the output_text parts of the response of a response.completed event
CompletedParts(payload) ==
    IF IsEventOfType(payload, "response.completed")
       /\ Get(from_str(payload)[1], "response") # None
    THEN PartsOfItems(Elements(Get(from_str(payload)[1], "response")[1], "output"))
    ELSE << >>

\* the text of each part
PartTexts(parts) ==
    [i \in 1..Len(parts) |-> UnwrapOr(GetStr(parts[i], "text"), << >>)]

\* the annotations of the parts that have a URL, as (url, title) entries
RECURSIVE AnnotationEntries(_)
AnnotationEntries(parts) ==
    IF parts = << >> THEN << >>
    ELSE [i \in 1..Len(SelectSeq(Elements(Head(parts), "annotations"),
                                 LAMBDA x : GetStr(x, "url") # None)) |->
            Citation(GetStr(SelectSeq(Elements(Head(parts), "annotations"),
                                      LAMBDA x : GetStr(x, "url") # None)[i], "url")[1],
                     GetStr(SelectSeq(Elements(Head(parts), "annotations"),
                                      LAMBDA x : GetStr(x, "url") # None)[i], "title"))]
         \o AnnotationEntries(Tail(parts))

\* the annotation entries of the completed events among the payloads
RECURSIVE AnnotationsIn(_)
AnnotationsIn(payloads) ==
    IF payloads = << >> THEN << >>
    ELSE AnnotationEntries(CompletedParts(Head(payloads))) \o AnnotationsIn(Tail(payloads))

\* a response.completed event whose response has output_text parts with
\* text and URL annotations
IsAnnotatedCompleted(payload) ==
    /\ Concat(PartTexts(CompletedParts(payload))) # << >>
    /\ AnnotationEntries(CompletedParts(payload)) # << >>

\* sub occurs in s
Contains(s, sub) ==
    \E i \in 1..(Len(s) + 1) : i + Len(sub) - 1 <= Len(s) /\ SubSeq(s, i, i + Len(sub) - 1) = sub

\* C12 as stated: nothing was forwarded to the sink and some parsed
\* response.completed event has output_text parts with URL annotations;
\* then the message contains each part's text, citations is one entry per
\* distinct annotation URL of the event with its title, displayed is false.
C12_CompletedAsStated ==
    pc = "returned" /\ use_tools /\ sunk = << >> =>
        \A i \in 1..Len(handled) :
            IsAnnotatedCompleted(handled[i]) =>
                /\ \A k \in 1..Len(CompletedParts(handled[i])) :
                       Contains(result[1].message, PartTexts(CompletedParts(handled[i]))[k])
                /\ result[1].citations =
                       FirstOccurrences(AnnotationEntries(CompletedParts(handled[i])), {})
                /\ ~result[1].displayed

\* a response.completed event that carries a response
HasResponse(payload) ==
    /\ IsEventOfType(payload, "response.completed")
    /\ Get(from_str(payload)[1], "response") # None

\* no text was streamed and none was stored: the sink was not invoked and
\* every parsed payload has a type that is not message (a message event and
\* an untyped payload with an output set final_text)
NoTextStored ==
    /\ sunk = << >>
    /\ \A i \in 1..Len(handled) :
           /\ GetStr(from_str(handled[i])[1], "type") # None
           /\ ~IsEventOfType(handled[i], "message")

\* the last response.completed event with a response among the payloads,
\* whose response is the snapshot at the end of the stream
LastSnapshot(payloads) ==
    payloads[CHOOSE i \in 1..Len(payloads) :
                /\ HasResponse(payloads[i])
                /\ \A j \in (i + 1)..Len(payloads) : ~HasResponse(payloads[j])]

\* the stream of the claim: no text stored, and the snapshot has
\* output_text parts with text and URL annotations
CompletedOnly ==
    /\ NoTextStored
    /\ \E i \in 1..Len(handled) : HasResponse(handled[i])
    /\ IsAnnotatedCompleted(LastSnapshot(handled))

\* the entries of citations with this url
EntriesFor(url) == {k \in 1..Len(citations) : citations[k].url = url}

\* the title of the first URL-bearing object with this url among entries
FirstTitle(entries, url) ==
    entries[CHOOSE i \in 1..Len(entries) :
               /\ entries[i].url = url
               /\ \A j \in 1..(i - 1) : entries[j].url # url].title

\* C12: in stream_responses, when no text was streamed, no message event
\* and no untyped payload was parsed, and the last response.completed event
\* that carries a response has output_text parts with text and URL
\* annotations, the message contains the text of each of these parts,
\* citations has exactly one entry for each distinct annotation URL, with
\* the title of the first object of the stream that carries the URL, the
\* sink was not invoked and displayed is false.
C12_CompletedOnly ==
    pc = "returned" /\ use_tools /\ CompletedOnly =>
        /\ \A k \in 1..Len(CompletedParts(LastSnapshot(handled))) :
               Contains(result[1].message, PartTexts(CompletedParts(LastSnapshot(handled)))[k])
        /\ \A k \in 1..Len(AnnotationEntries(CompletedParts(LastSnapshot(handled)))) :
               LET url == AnnotationEntries(CompletedParts(LastSnapshot(handled)))[k].url
               IN /\ Cardinality(EntriesFor(url)) = 1
                  /\ \A c \in EntriesFor(url) :
                         /\ result[1].citations[c].url = url
                         /\ result[1].citations[c].title =
                                FirstTitle(EncounteredIn(handled), url)
        /\ result[1].citations = citations
        /\ ~result[1].displayed
        /\ sunk = << >>

\* an annotation event gave a URL its title, then a completed event whose
\* annotation has the same URL came: the message is the text of its part,
\* and the URL keeps the title of the annotation event
C12_Witness ==
    /\ pc = "returned" /\ use_tools /\ CompletedOnly
    /\ handled = <<<<T_Annotation>>, <<T_Completed>>>>
    /\ result[1].message = <<"Answer">>
    /\ result[1].citations = <<Citation(<<"https://example.com">>, Some(<<"Other">>)),
                               Citation(<<"https://example.org">>, None)>>

\* ------------------------------------------------------------ C13

\* choices[0].message of a chunk, None without it
ChoiceMessage(payload) ==
    IF from_str(payload) = None \/ Elements(from_str(payload)[1], "choices") = << >>
    THEN None
    ELSE Get(Elements(from_str(payload)[1], "choices")[1], "message")

\* the chunk's choices[0].message has a string content that is not empty
HasStringMessage(payload) ==
    /\ ChoiceMessage(payload) # None
    /\ GetStr(ChoiceMessage(payload)[1], "content") # None
    /\ GetStr(ChoiceMessage(payload)[1], "content")[1] # << >>

\* C13 as stated: in stream_chat_model, no fragment was captured and a
\* chunk's choices[0].message has a non-empty string content c; then the
\* message is c, the sink was never invoked and displayed is false.
C13_FinalMessageAsStated ==
    pc = "returned" /\ ~use_tools /\ sunk = << >> =>
        \A i \in 1..Len(handled) :
            HasStringMessage(handled[i]) =>
                /\ result[1].message = GetStr(ChoiceMessage(handled[i])[1], "content")[1]
                /\ ~result[1].displayed

\* the last of the payloads whose choices[0] has a message
LastWithMessage(payloads) ==
    payloads[CHOOSE i \in 1..Len(payloads) :
                /\ ChoiceMessage(payloads[i]) # None
                /\ \A j \in (i + 1)..Len(payloads) : ChoiceMessage(payloads[j]) = None]

\* no fragment was forwarded, every parsed payload has a choices array, and
\* the last choices[0].message of the stream has a non-empty string content
FinalMessageOnly ==
    /\ sunk = << >>
    /\ \A i \in 1..Len(handled) : AsArray(Get(from_str(handled[i])[1], "choices")) # None
    /\ \E i \in 1..Len(handled) : ChoiceMessage(handled[i]) # None
    /\ HasStringMessage(LastWithMessage(handled))

\* C13: in stream_chat_model, when no fragment was forwarded, no payload
\* without choices was parsed, and the last choices[0].message of the stream
\* has a non-empty string content c, the message is c, the sink was never
\* invoked and displayed is false.
C13_FinalMessage ==
    pc = "returned" /\ ~use_tools /\ FinalMessageOnly =>
        /\ result[1].message =
               GetStr(ChoiceMessage(LastWithMessage(handled))[1], "content")[1]
        /\ ~result[1].displayed
        /\ sunk = << >>

\* the final message with a string content came after one without
C13_Witness ==
    /\ pc = "returned" /\ ~use_tools /\ FinalMessageOnly
    /\ Len(handled) > 1
    /\ ~HasStringMessage(handled[1])
    /\ ChoiceMessage(handled[1]) # None
    /\ result[1].message = <<"Done.">>

\* ------------------------------------------------------------ C14

\* the streams whose blocks are empty, of an ignored type, or without text,
\* URL and snapshot
QuietStreams ==
    Streams(IF use_tools THEN ResponsesQuietBlocks ELSE ChatQuietBlocks,
            EolLF, MaxQuietBlocks)

\* C14: a stream without recognizable content is not an error: the call
\* does not fail, and it returns Ok with an empty message, no citation and
\* displayed = false.
C14_NoContentIsNotAnError ==
    input \in QuietStreams =>
        /\ pc # "failed" /\ error = None
        /\ pc = "returned" =>
               result = Some(WebSearchResult(<< >>, << >>, FALSE))

\* a returned call whose stream had a block that is not JSON and a parsed
\* event of an ignored type
C14_Witness ==
    /\ input \in QuietStreams
    /\ pc = "returned"
    /\ handled # << >>
    /\ \E i \in 1..Len(input) : input[i] = COMMENT

\* ------------------------------------------------------------ C15

\* s is a prefix of t
IsPrefix(s, t) == Len(s) <= Len(t) /\ SubSeq(t, 1, Len(s)) = s

\* C15: text_buffer only grows: in every step of either adapter the old
\* value of text_buffer is a prefix of the new one.
C15_TextBufferAppendOnly == [][IsPrefix(text_buffer, text_buffer')]_vars

\* text_buffer was seeded without the sink (a message event, a payload
\* without choices) and a fragment was appended to it afterwards
C15_Witness ==
    /\ pc = "await"
    /\ sunk # << >>
    /\ Len(text_buffer) > Len(Concat(sunk))
    /\ IsPrefix(<<"Final">>, text_buffer) \/ IsPrefix(<<"Plain">>, text_buffer)

\* ------------------------------------------------------------ C17

\* C17: the call terminates, with one outcome: a result or an error, not
\* both, and none before it terminates; it terminates after the sentinel,
\* at the end of the chunks, or by a fatal error; once it has terminated no
\* chunk is consumed, the sink is not invoked and the outcome does not
\* change.
C17_TerminatesOnce ==
    /\ <>Finished
    /\ [](Finished => (result = None) # (error = None))
    /\ [](Finished => (pc = "returned") = (result # None))
    /\ [](~Finished => result = None /\ error = None)
    /\ [](Finished => done_seen \/ rest = << >> \/ pc = "failed")
    /\ [][Finished => UNCHANGED vars]_vars

\* the call returned after the sentinel, leaving chunks unread
C17_Witness == pc = "returned" /\ done_seen /\ rest # << >> /\ result # None

\* ------------------------------------------------------------ C18

\* what the text, the sink, the citations and the snapshots are
Effects(a) ==
    <<a.text_buffer, a.final_text, a.final_response, a.final_message, a.displayed,
      a.citations, a.seen_citations, a.sunk, a.sink_failed, a.handled>>

\* the state after the chunk loop took block, ended by a blank line, out of
\* the buffer
AfterTerminated(block, a) ==
    IF use_tools THEN responses_drain(block \o <<LF, LF>>, a).a
    ELSE chat_drain(block \o <<LF, LF>>, a).a

\* C18: at the end of the chunks without a sentinel, a carry that is not
\* blank is processed once, with the effects on text, sink, citations and
\* snapshots of the same block ended by a blank line; a blank carry is not
\* processed. (The outcome of the handler is not among these effects: an
\* error is returned for a block ended by a blank line and dropped for the
\* trailing one, which is what C6 and C7 are about.)
C18_TrailingBlockFlush ==
    [][pc = "flush" /\ ~done_seen =>
         /\ Effects(Run') = IF Trim(carry) = << >> THEN Effects(Run)
                            ELSE Effects(AfterTerminated(carry, Run))
         /\ Len(handled') <= Len(handled) + 1]_vars

\* a trailing block was flushed after a terminated one, and its fragment
\* reached the sink
C18_Witness ==
    /\ pc = "resolve" /\ ~done_seen
    /\ Trim(carry) # << >>
    /\ Len(handled) = 2
    /\ Contains(carry, handled[2])
    /\ Len(sunk) = 2

\* ------------------------------------------------------------ C19

\* the strings of a sequence that are not empty
NonEmpty(strings) == SelectSeq(strings, LAMBDA x : x # << >>)

\* the fragments of a value that is a string or a structure of parts
FragmentsOf(value) ==
    IF value.t = "str" THEN <<value.v>> ELSE extract_text_segments_list(value)

\* the fragments of each item of an array content, in order
RECURSIVE FragmentsOfItems(_)
FragmentsOfItems(items) ==
    IF items = << >> THEN << >>
    ELSE FragmentsOf(Head(items)) \o FragmentsOfItems(Tail(items))

\* the fragments an event of stream_responses carries: the delta of a delta
\* event, the segments of the output of a full-text event
ResponsesFragments(json) ==
    IF GetStr(json, "type") = Some(<<"response.output_text.delta">>)
       /\ Get(json, "delta") # None
    THEN FragmentsOf(Get(json, "delta")[1])
    ELSE IF GetStr(json, "type") = Some(<<"response.output_text">>)
            /\ Get(json, "output") # None
    THEN extract_text_segments_list(Get(json, "output")[1])
    ELSE << >>

\* the fragments a chunk of stream_chat_model carries: choices[0].delta.content
ChatFragments(json) ==
    IF Elements(json, "choices") = << >>
       \/ Get(Elements(json, "choices")[1], "delta") = None
       \/ Get(Get(Elements(json, "choices")[1], "delta")[1], "content") = None
    THEN << >>
    ELSE IF Get(Get(Elements(json, "choices")[1], "delta")[1], "content")[1].t = "arr"
    THEN FragmentsOfItems(Get(Get(Elements(json, "choices")[1], "delta")[1], "content")[1].v)
    ELSE FragmentsOf(Get(Get(Elements(json, "choices")[1], "delta")[1], "content")[1])

\* the non-empty fragments of the events of a stream, in stream order
RECURSIVE StreamFragments(_)
StreamFragments(bytes) ==
    IF bytes = << >> THEN << >>
    ELSE (IF from_str(<<Head(bytes)>>) = None THEN << >>
          ELSE NonEmpty(IF use_tools THEN ResponsesFragments(from_str(<<Head(bytes)>>)[1])
                        ELSE ChatFragments(from_str(<<Head(bytes)>>)[1])))
         \o StreamFragments(Tail(bytes))

\* C19: the sink is invoked with the non-empty fragments of the stream's
\* events in their order in the byte stream, and inside one event in the
\* order of its parts: at any time with a prefix of them, and with all of
\* them when the call returns without a failure of the sink.
C19_SinkOrder ==
    /\ IsPrefix(sunk, StreamFragments(input))
    /\ pc = "returned" /\ ~sink_failed => sunk = StreamFragments(input)

\* a returned call of two events that forwarded three different fragments
C19_Witness ==
    /\ pc = "returned"
    /\ Len(handled) = 2
    /\ Len(sunk) = 3
    /\ sunk[1] # sunk[2] /\ sunk[2] # sunk[3] /\ sunk[1] # sunk[3]

\* ------------------------------------------------------------ C20

\* the call returned the error of a chunk the transport failed to yield
ChunkReadFailed == error = Some(<<"Failed to read response chunk">>)

\* C20: a failure of the transport ends the aggregation. On a status that
\* is not a success the call reads the body as text and nothing else
\* happens meanwhile; it then fails with an error that carries the status
\* and the body, no chunk was processed and the sink was not invoked; on a
\* success status the loop starts. An error yielded by the transport in the
\* place of a chunk fails the call with that error and leaves what was
\* streamed as it was. A call that failed returns no WebSearchResult,
\* whatever was streamed before, and processes nothing more.
C20_TransportFailure ==
    /\ [][pc = "request" =>
            /\ pc' = IF is_success(status) THEN "await" ELSE "error_text"
            /\ error' = None /\ rest' = input
            /\ Effects(Run') = Effects(Run)]_vars
    /\ [][pc = "error_text" =>
            /\ pc' = "failed"
            /\ error' \in {Some(api_error(status, from_utf8_lossy(input))),
                           Some(api_error(status, << >>))}
            /\ handled' = << >> /\ sunk' = << >> /\ carry' = << >>
            /\ Effects(Run') = Effects(Run)]_vars
    /\ [](pc = "error_text" => ~is_success(status) /\ error = None /\ result = None)
    /\ [][~ChunkReadFailed /\ ChunkReadFailed' =>
            /\ pc = "await" /\ pc' = "failed"
            /\ rest' = rest /\ carry' = carry
            /\ Effects(Run') = Effects(Run)]_vars
    /\ [](error # None => pc = "failed")
    /\ [](pc = "failed" => error # None /\ result = None)
    /\ [][pc = "failed" => UNCHANGED vars]_vars

\* the transport failed after a fragment was streamed and before the whole
\* body was yielded
C20_Witness ==
    /\ pc = "failed"
    /\ ChunkReadFailed
    /\ sunk # << >>
    /\ rest # << >>
    /\ result = None

\* the status was not a success and the call failed with status and body
C20_StatusWitness ==
    /\ pc = "failed"
    /\ ~is_success(status)
    /\ error = Some(api_error(status, from_utf8_lossy(input)))
    /\ handled = << >>

\* ------------------------------------------------------------ C21

\* the call c is where the call on its own, r, is after the same chunks
SameAsAlone(c, r) ==
    /\ c.pc = "await" =>
         c.carry = r.carry /\ c.a = r.a /\ c.result = None /\ c.error = None
    /\ c.pc = "failed" =>
         c.error = r.err /\ c.error # None /\ c.result = None /\ c.a.sunk = r.a.sunk
    /\ c.pc = "returned" =>
         /\ <<c.result, c.error>> = OneChunkOutcome(r, c.use_tools)
         /\ c.a.sunk = IF c.use_tools THEN responses_flush(r.carry, r.a).sunk
                       ELSE chat_flush(r.carry, r.a).sunk

\* C21: of two calls whose loop bodies interleave in any order, each has at
\* every await the carry and the locals (text, citations, seen URLs,
\* snapshots, sink calls) of the same call running on its own over the same
\* chunks, and returns the same result or error; a step of one call leaves
\* the other call as it was.
C21_RunsIndependent ==
    /\ [](\A i \in 1..Len(runs) : SameAsAlone(runs[i], runs[i].alone))
    /\ [][\A i \in 1..Len(runs) : runs'[i] # runs[i] => runs'[3 - i] = runs[3 - i]]_vars

\* both calls are in progress, each has forwarded a fragment and harvested
\* the same URL
C21_Witness ==
    /\ Len(runs) = 2
    /\ \A i \in 1..2 : runs[i].pc = "await" /\ runs[i].a.sunk # << >>
    /\ runs[1].a.citations # << >>
    /\ runs[1].a.seen_citations = runs[2].a.seen_citations

\* ------------------------------------------------------------ C22

\* the stream is written with CR LF line endings, and no character of it
\* takes more than one byte
IsCrlfStream(bytes) ==
    /\ \E i \in 1..Len(bytes) : bytes[i] = CR
    /\ \A i \in 1..Len(bytes) : bytes[i] \notin {B_C3, B_A9}

\* the payloads handled by the call that is given bytes as one chunk
WholeRunHandled(tools, bytes) ==
    IF tools
    THEN responses_flush(responses_chunk(bytes, << >>, NewRun(0, FALSE, TRUE)).carry,
                         responses_chunk(bytes, << >>, NewRun(0, FALSE, TRUE)).a).handled
    ELSE chat_flush(chat_chunk(bytes, << >>, NewRun(0, FALSE, TRUE)).carry,
                    chat_chunk(bytes, << >>, NewRun(0, FALSE, TRUE)).a).handled

\* C22: line-ending normalization. Whatever the cut of a stream with CR LF
\* line endings into chunks, a cut between CR and LF included, the call
\* returns what it returns for the stream with every CR LF replaced by LF,
\* and a call that returns a result has handled the same payloads.
C22_CrlfNormalization ==
    Finished /\ IsCrlfStream(input) =>
        /\ Outcome = WholeRun(use_tools, replace_crlf(input), 0, FALSE, TRUE)
        /\ pc = "returned" => handled = WholeRunHandled(use_tools, replace_crlf(input))

\* ------------------------------------------------------------ C23

\* the event blocks of a stream with LF line endings: the texts between
\* blank lines, the text after the last blank line included
RECURSIVE BlocksOf(_)
BlocksOf(bytes) ==
    IF find_blank(bytes) = 0 THEN <<bytes>>
    ELSE <<SubSeq(bytes, 1, find_blank(bytes) - 1)>>
         \o BlocksOf(SubSeq(bytes, find_blank(bytes) + 2, Len(bytes)))

\* the lines of a block that start with data:, in line order
DataLines(block) ==
    SelectSeq(Lines(block), LAMBDA line : line # << >> /\ Head(line) = DATA)

\* the trimmed payload of each data: line
RECURSIVE TrimmedPayloads(_)
TrimmedPayloads(lines) ==
    IF lines = << >> THEN << >>
    ELSE <<Trim(Tail(Head(lines)))>> \o TrimmedPayloads(Tail(lines))

\* the document of a block: its non-empty payloads joined with a newline
JoinedPayload(block) == Join(NonEmpty(TrimmedPayloads(DataLines(block))), <<LF>>)

\* the documents of the blocks that have one and whose document parses
RECURSIVE ParsedDocuments(_)
ParsedDocuments(blocks) ==
    IF blocks = << >> THEN << >>
    ELSE (IF JoinedPayload(Head(blocks)) # << >>
             /\ from_str(JoinedPayload(Head(blocks))) # None
          THEN <<JoinedPayload(Head(blocks))>> ELSE << >>)
         \o ParsedDocuments(Tail(blocks))

\* C23: in a stream without a [DONE] line, the document of each block is
\* the join with a newline of the trimmed non-empty payloads of its data:
\* lines, in line order; the other lines and the empty data: lines add
\* nothing to it. The documents handled are, in order and once each, those
\* of the blocks whose document parses: a prefix of them at any time, all of
\* them when the call returns.
C23_DataLinesJoined ==
    /\ IsPrefix(handled, ParsedDocuments(BlocksOf(input)))
    /\ pc = "returned" => handled = ParsedDocuments(BlocksOf(input))

\* a returned call that handled two documents written on two data: lines
\* each, one of them among other lines
C23_Witness ==
    /\ pc = "returned"
    /\ Len(handled) = 2
    /\ Len(handled[1]) = 3 /\ Len(handled[2]) = 3
    /\ \E i \in 1..Len(input) : input[i] = EVENT
    /\ Len(sunk) = 2

\* ------------------------------------------------------------ C16

\* the document process_event takes from a block: the joined payloads of
\* its data: lines, or the trimmed block when it has none
BlockDocument(block) ==
    IF JoinedPayload(block) # << >> THEN JoinedPayload(block) ELSE Trim(block)

\* the documents of the blocks that parse, in block order
RECURSIVE DocumentsOf(_)
DocumentsOf(blocks) ==
    IF blocks = << >> THEN << >>
    ELSE (IF BlockDocument(Head(blocks)) # << >>
             /\ from_str(BlockDocument(Head(blocks))) # None
          THEN <<Trim(BlockDocument(Head(blocks)))>> ELSE << >>)
         \o DocumentsOf(Tail(blocks))

\* the blocks of a buffer that are followed by a blank line
CompleteBlocks(buffer) == SubSeq(BlocksOf(buffer), 1, Len(BlocksOf(buffer)) - 1)

\* the bytes the step takes from the transport
Yielded == SubSeq(rest, 1, Len(rest) - Len(rest'))

\* C16: whenever the next chunk is awaited, carry holds no blank-line
\* delimiter, a line ending CR LF counting as LF: no complete block is left
\* in it. Every complete block of the buffer, which is carry followed by the
\* chunk with CR LF read as LF, was taken out and processed in buffer order
\* before the next await: the documents handled by the step are those of the
\* complete blocks, in their order.
\* (Violated: CR LF is replaced inside each chunk, so that a blank line
\* whose CR LF is cut between two chunks stays in carry as LF CR LF and its
\* block is not processed before the next chunk is awaited.)
C16_CompleteBlocksDrained ==
    /\ [](pc = "await" => find_blank(replace_crlf(carry)) = 0)
    /\ [][pc = "await" /\ pc' = "await" /\ rest' # rest =>
            handled' = handled \o DocumentsOf(CompleteBlocks(
                           replace_crlf(carry \o from_utf8_lossy(Yielded))))]_vars

\* ------------------------------------------------------------ C24

\* process_event of the adapter in use: [a, done, err]
ProcessEvent(event, a) ==
    IF use_tools THEN responses_process_event(event, a) ELSE chat_process_event(event, a)

\* raw is the outcome of a block without a data: line in the state a, sent
\* the outcome of the same text sent on a data: line: no error and no end of
\* the loop; the effects of the data: line when the text parses, none when
\* it does not
RawAsSent(block, raw, sent, a) ==
    /\ raw.err = None /\ ~raw.done
    /\ Effects(raw.a) = IF from_str(block) # None THEN Effects(sent.a) ELSE Effects(a)

\* the texts of the blocks that parse
RECURSIVE ParsedRaw(_)
ParsedRaw(blocks) ==
    IF blocks = << >> THEN << >>
    ELSE (IF from_str(Head(blocks)) # None THEN <<Trim(Head(blocks))>> ELSE << >>)
         \o ParsedRaw(Tail(blocks))

\* C24: a block without a data: line is tried as JSON. In every state of
\* the call, such a block has the effects on text, sink, citations and
\* snapshots of its text sent on a data: line when the text parses, and
\* none when it does not; it returns no error and the loop goes on. So a
\* call over such blocks handles each text that parses, in order, and never
\* fails.
C24_RawBlockBestEffort ==
    /\ \A block \in (IF use_tools THEN ResponsesRawBlocks ELSE ChatRawBlocks) :
          RawAsSent(block, ProcessEvent(block, Run), ProcessEvent(<<DATA>> \o block, Run), Run)
    /\ pc # "failed"
    /\ IsPrefix(handled, ParsedRaw(BlocksOf(input)))
    /\ pc = "returned" => handled = ParsedRaw(BlocksOf(input))

\* a returned call over a text that is not JSON and then a fragment sent
\* without data:, which was forwarded
C24_Witness ==
    /\ pc = "returned"
    /\ Len(BlocksOf(input)) = 2
    /\ from_str(BlocksOf(input)[1]) = None
    /\ Len(handled) = 1
    /\ sunk # << >> /\ ~sink_failed
    /\ result[1].displayed


\* ------------------------------------------------------------ C25

\* the events without text effect among the documents: an annotation event
\* and events of types no arm names, with and without URLs and texts
SilentEvents == {<<T_Annotation>>, <<T_Future>>, <<T_Ignored>>}

\* the urls of a list of citations
UrlsOf(entries) == {entries[i].url : i \in 1..Len(entries)}

\* the locals a after a payload of which only the URLs count: citations
\* gains the first occurrences of the payload's URLs not seen before
Harvested(payload, a) ==
    [a EXCEPT !.citations =
                  @ \o FirstOccurrences(Encountered(from_str(payload)[1]), a.seen_citations),
              !.seen_citations = @ \cup UrlsOf(Encountered(from_str(payload)[1])),
              !.handled = Append(@, Trim(payload))]

\* the payload handled by the step, when the step handled exactly one
HandledOne == IF Len(handled') = Len(handled) + 1 THEN Some(handled'[Len(handled')]) ELSE None

\* C25: in stream_responses an annotation event, or an event of a type no
\* arm of the match names, is handled without error, does not invoke the
\* sink and leaves text_buffer, final_text, final_response and displayed as
\* they are; of the locals only citations and seen_citations change, by the
\* first occurrences of the event's URLs; and the step of a run that handles
\* such an event does not end the run with an error.
C25_NoTextEffect ==
    /\ [](use_tools =>
            \A payload \in SilentEvents :
                /\ responses_handle_payload(payload, Run).err = None
                /\ responses_handle_payload(payload, Run).a = Harvested(payload, Run))
    /\ [][use_tools /\ HandledOne # None /\ HandledOne[1] \in SilentEvents =>
            /\ text_buffer' = text_buffer /\ final_text' = final_text
            /\ final_response' = final_response /\ displayed' = displayed
            /\ sunk' = sunk /\ pc' # "failed"
            /\ citations' = Harvested(HandledOne[1], Run).citations]_vars

\* a run returned the streamed text after an event of an unknown type, with
\* a fragment, a text and a URL of its own, was handled: the URL is cited
C25_Witness ==
    /\ pc = "returned" /\ use_tools
    /\ handled = <<<<T_Hello>>, <<T_Future>>>>
    /\ result[1].message = <<"Hello ">>
    /\ sunk = <<<<"Hello ">>>>
    /\ UrlsOf(citations) = {<<"https://example.org">>}


\* ------------------------------------------------------------ C26

\* the response.completed events among the documents
CompletedEvents == {<<T_Completed>>, <<T_Completed2>>, <<T_CompletedBare>>}

\* the response field of an event
ResponseOf(payload) == Get(from_str(payload)[1], "response")[1]

\* C26: in stream_responses a response.completed event is handled without
\* error and, its URLs apart, changes final_response only, which becomes the
\* event's response field whatever it was: text_buffer, final_text and
\* displayed stay and the sink is not invoked. When the stream has ended,
\* the result message is final_text if an event set it, else text_buffer if
\* text_buffer is not blank: the snapshot gives the message in neither case.
C26_CompletedSnapshot ==
    /\ [](use_tools =>
            \A payload \in CompletedEvents :
                /\ responses_handle_payload(payload, Run).err = None
                /\ responses_handle_payload(payload, Run).a =
                       [Harvested(payload, Run) EXCEPT
                           !.final_response = Some(ResponseOf(payload))])
    /\ [][use_tools /\ pc = "resolve" /\ pc' = "returned" =>
            /\ final_text # << >> => result'[1].message = final_text
            /\ final_text = << >> /\ Trim(text_buffer) # << >> =>
                   result'[1].message = text_buffer
            /\ displayed' = displayed /\ sunk' = sunk]_vars

\* a run returned the streamed text although a response.completed event
\* with another text came after it and is the snapshot; a message event's
\* snapshot was replaced by that of a response.completed event
C26_Witness ==
    /\ pc = "returned" /\ use_tools
    /\ \/ /\ handled = <<<<T_Hello>>, <<T_Completed>>>>
          /\ result[1].message = <<"Hello ">>
       \/ /\ handled = <<<<T_Message>>, <<T_Completed>>>>
          /\ result[1].message = <<"Final">>
    /\ final_response = Some(ResponseOf(<<T_Completed>>))
    /\ parse_response_output(final_response[1], Run).text = <<"Answer">>


\* ------------------------------------------------------------ C27

\* the message events among the documents, each with the text its content
\* parts and its segments give: the concatenation of the parts' text and
\* text_delta, none for the event that has only its type
MessageEvents ==
    {[payload |-> <<T_Message>>, text |-> <<"Final">>],
     [payload |-> <<T_MessageParts>>, text |-> <<"A", "B">>],
     [payload |-> <<T_MessageBare>>, text |-> << >>]}

IsMessageEvent(payload) == \E m \in MessageEvents : m.payload = payload

ExtractedText(payload) == (CHOOSE m \in MessageEvents : m.payload = payload).text

\* the text the "message" arm stores: the extracted text, or the event's
\* JSON text when there is none
AggregatedText(payload) ==
    IF ExtractedText(payload) # << >> THEN ExtractedText(payload)
    ELSE to_string(from_str(payload)[1])

\* the last of the payloads that satisfies Is
LastThat(Is(_), payloads) ==
    CHOOSE i \in 1..Len(payloads) :
        Is(payloads[i]) /\ \A j \in (i + 1)..Len(payloads) : ~Is(payloads[j])

HasExtractableText(payload) == IsMessageEvent(payload) /\ ExtractedText(payload) # << >>

\* C27 as stated: in stream_responses, when a message event with
\* extractable text was handled, the result message is the text of the last
\* such event.
C27_MessageAsStated ==
    pc = "returned" /\ use_tools /\ (\E i \in 1..Len(handled) : HasExtractableText(handled[i])) =>
        result[1].message = ExtractedText(handled[LastThat(HasExtractableText, handled)])

\* a payload without a string type whose output gives a text
IsUntypedText(payload) ==
    /\ GetStr(from_str(payload)[1], "type") = None
    /\ Get(from_str(payload)[1], "output") # None
    /\ parse_response_output(from_str(payload)[1], NewRun(0, FALSE, TRUE)).text # << >>

SetsFinalText(payload) == IsMessageEvent(payload) \/ IsUntypedText(payload)

\* C27: in stream_responses a message event is handled without error, does
\* not invoke the sink and leaves displayed as it is; its aggregated text
\* (the extracted text, or the event's JSON text when it has none) becomes
\* text_buffer if text_buffer is empty and becomes final_text in any case,
\* and the event becomes final_response if there is none. So when a run
\* returns in which a message event was handled and no untyped payload with
\* output text after the last one, the result message is the aggregated
\* text of the last message event, whatever was streamed before or after.
C27_MessageEvent ==
    /\ use_tools =>
         \A m \in MessageEvents :
             /\ responses_handle_payload(m.payload, Run).err = None
             /\ responses_handle_payload(m.payload, Run).a =
                    [Harvested(m.payload, Run) EXCEPT
                        !.text_buffer = IF @ = << >> THEN AggregatedText(m.payload) ELSE @,
                        !.final_text = AggregatedText(m.payload),
                        !.final_response =
                            IF @ = None THEN Some(from_str(m.payload)[1]) ELSE @]
    /\ pc = "returned" /\ use_tools /\ (\E i \in 1..Len(handled) : SetsFinalText(handled[i]))
          /\ IsMessageEvent(handled[LastThat(SetsFinalText, handled)]) =>
         result[1].message = AggregatedText(handled[LastThat(SetsFinalText, handled)])

\* a fragment was streamed after a message event: the message is the
\* event's text, the fragment was forwarded and is in text_buffer after the
\* seed
C27_Witness ==
    /\ pc = "returned" /\ use_tools
    /\ handled = <<<<T_Message>>, <<T_Hello>>>>
    /\ result[1].message = <<"Final">>
    /\ sunk = <<<<"Hello ">>>>
    /\ text_buffer = <<"Final", "Hello ">>
    /\ result[1].displayed


\* ------------------------------------------------------------ C28

\* the response.output_text events among the documents, each with the
\* non-empty segments the walk finds in its output field, in document
\* order: a text whose type is none of the walk's is no segment, and an
\* output that is a string has none
FullBlocks ==
    {[payload |-> <<T_OutputText>>, segments |-> <<<<"Full ">>, <<"block">>>>],
     [payload |-> <<T_OutputTextFlat>>, segments |-> << >>]}

\* C28: in stream_responses a response.output_text event whose sink does
\* not fail is handled without error; the non-empty segments of its output
\* field are passed to the sink one by one in walk order, after the
\* fragments passed before, and appended in that order to text_buffer,
\* whose earlier text stays; displayed becomes true if there is such a
\* segment and stays as it is otherwise; final_text and final_response stay.
C28_FullBlockForwarded ==
    /\ [](use_tools =>
            \A b \in FullBlocks :
                /\ responses_handle_payload(b.payload, Run).err = None
                /\ responses_handle_payload(b.payload, Run).a =
                       [Harvested(b.payload, Run) EXCEPT
                           !.sunk = @ \o b.segments,
                           !.text_buffer = @ \o Concat(b.segments),
                           !.displayed = @ \/ b.segments # << >>])
    /\ [][use_tools /\ HandledOne # None /\ (\E b \in FullBlocks : b.payload = HandledOne[1]) =>
            \E b \in FullBlocks :
                /\ b.payload = HandledOne[1]
                /\ sunk' = sunk \o b.segments
                /\ text_buffer' = text_buffer \o Concat(b.segments)
                /\ displayed' = (displayed \/ b.segments # << >>)
                /\ pc' # "failed"]_vars

\* a full block came after a fragment: its two segments were forwarded
\* after the fragment, and the message is the three texts in that order
C28_Witness ==
    /\ pc = "returned" /\ use_tools
    /\ handled = <<<<T_Hello>>, <<T_OutputText>>>>
    /\ sunk = <<<<"Hello ">>, <<"Full ">>, <<"block">>>>
    /\ result[1].message = <<"Hello ", "Full ", "block">>
    /\ result[1].displayed


\* ------------------------------------------------------------ C29

\* the payloads without a string type among the documents: whether they
\* have an output field, and the text of the parts of the message items of
\* output (text and text_delta of an output_text part, text of any other)
UntypedPayloads ==
    {[payload |-> <<T_Untyped>>, output |-> TRUE, text |-> <<"Whole", " text">>],
     [payload |-> <<T_UntypedEmpty>>, output |-> TRUE, text |-> << >>],
     [payload |-> <<T_UntypedOther>>, output |-> FALSE, text |-> << >>],
     [payload |-> <<K_Plain>>, output |-> FALSE, text |-> << >>]}

\* C29: in stream_responses a payload without a string type is handled
\* without error, does not invoke the sink and leaves text_buffer and
\* displayed as they are. With an output field, the payload becomes
\* final_response whatever it was, and final_text becomes the text of the
\* message items of output if that text is not empty and stays otherwise;
\* without one, only the payload's URLs are harvested.
C29_UntypedPayload ==
    /\ [](use_tools =>
            \A u \in UntypedPayloads :
                /\ GetStr(from_str(u.payload)[1], "type") = None
                /\ (Get(from_str(u.payload)[1], "output") # None) = u.output
                /\ responses_handle_payload(u.payload, Run).err = None
                /\ responses_handle_payload(u.payload, Run).a =
                       IF u.output
                       THEN [Harvested(u.payload, Run) EXCEPT
                                !.final_response = Some(from_str(u.payload)[1]),
                                !.final_text = IF u.text # << >> THEN u.text ELSE @]
                       ELSE Harvested(u.payload, Run))
    /\ [][use_tools /\ HandledOne # None
              /\ (\E u \in UntypedPayloads : u.payload = HandledOne[1]) =>
            /\ sunk' = sunk /\ text_buffer' = text_buffer /\ displayed' = displayed
            /\ pc' # "failed"]_vars

\* an untyped payload with an output text came after a fragment: it is the
\* snapshot and gives the message, and the fragment was the only one
\* forwarded
C29_Witness ==
    /\ pc = "returned" /\ use_tools
    /\ handled = <<<<T_Hello>>, <<T_Untyped>>>>
    /\ final_response = from_str(<<T_Untyped>>)
    /\ result[1].message = <<"Whole", " text">>
    /\ sunk = <<<<"Hello ">>>>
    /\ text_buffer = <<"Hello ">>


\* ------------------------------------------------------------ C30

\* chunks with a choices array among the documents, each with the non-empty
\* fragments of the content of the delta of its first choice: the string,
\* the segments of each part of the array, the segments of the nested value
ChoiceChunks ==
    {[payload |-> <<K_Hi>>, fragments |-> <<<<"Hi">>>>],
     [payload |-> <<K_Parts>>, fragments |-> <<<<"a">>, <<"b">>, <<"c">>>>],
     [payload |-> <<K_Nested>>, fragments |-> <<<<"n">>>>],
     [payload |-> <<K_Two>>, fragments |-> <<<<"Hi">>>>],
     [payload |-> <<K_SecondOnly>>, fragments |-> << >>],
     [payload |-> <<K_Empty>>, fragments |-> << >>],
     [payload |-> <<K_NoChoice>>, fragments |-> << >>]}

\* the texts of a list of strings
AtomsOf(strings) == UNION {{strings[i][j] : j \in 1..Len(strings[i])} : i \in 1..Len(strings)}

\* C30: in stream_chat_model a chunk whose sink does not fail is handled
\* without error, and what it forwards to the sink and appends to
\* text_buffer are the non-empty fragments of choices[0].delta.content, in
\* order; displayed becomes true if there is one; nothing else of the
\* locals changes but the citations. So the text of a second choice is
\* never forwarded, never in text_buffer and never in the message, and a
\* chunk without a choice forwards nothing.
C30_FirstChoiceOnly ==
    /\ ~use_tools =>
         \A c \in ChoiceChunks :
             /\ chat_handle_payload(c.payload, Run).err = None
             /\ chat_handle_payload(c.payload, Run).a =
                    [Harvested(c.payload, Run) EXCEPT
                        !.sunk = @ \o c.fragments,
                        !.text_buffer = @ \o Concat(c.fragments),
                        !.displayed = @ \/ c.fragments # << >>]
    /\ ~use_tools /\ pc \notin {"idle", "request"} =>
         /\ "Second" \notin AtomsOf(sunk) \cup AtomsOf(<<text_buffer>>)
         /\ pc = "returned" => "Second" \notin AtomsOf(<<result[1].message>>)

\* chunks with a second choice were handled, one with a message in it: the
\* fragment of the first choice of the first chunk is all that was
\* forwarded, and it is the message
C30_Witness ==
    /\ pc = "returned" /\ ~use_tools
    /\ handled = <<<<K_Two>>, <<K_SecondOnly>>>>
    /\ sunk = <<<<"Hi">>>>
    /\ result[1].message = <<"Hi">>
    /\ final_message = None


\* ------------------------------------------------------------ C31

\* the chunks with a choices[0].message among the documents, each with the
\* text its message gives: the string content, the segments of the parts of
\* content joined by a blank line, the JSON text of the message whose
\* content is the empty string
FinalMessages ==
    {[payload |-> <<K_Final>>, text |-> <<"Done.">>],
     [payload |-> <<K_FinalParts>>, text |-> <<"P", BLANKLINE, "Q">>],
     [payload |-> <<K_FinalEmpty>>,
      text |-> <<"{", "\"", "content", "\"", ":", "\"", "\"", ",",
                 "\"", "role", "\"", ":", "\"", "assistant", "\"", "}">>]}

HasMessage(payload) == ChoiceMessage(payload) # None

MessageTextOf(payload) == (CHOOSE m \in FinalMessages : m.payload = payload).text

\* C31: in stream_chat_model final_message is the message of choices[0] of
\* the last chunk handled that has one, none if no chunk has. The step that
\* returns leaves displayed and the sink alone; its message is text_buffer
\* as it was if text_buffer was not empty, else the text of final_message
\* (its content, else its segments, else its JSON text), else empty when
\* there is no final_message; and the citations gain the first occurrences
\* of the URLs of final_message.
C31_FinalMessageFillsText ==
    /\ [](~use_tools /\ pc \in {"await", "flush", "resolve", "returned"} =>
            final_message = IF \E i \in 1..Len(handled) : HasMessage(handled[i])
                            THEN ChoiceMessage(handled[LastThat(HasMessage, handled)])
                            ELSE None)
    /\ [][~use_tools /\ pc = "resolve" /\ pc' = "returned" =>
            /\ displayed' = displayed /\ result'[1].displayed = displayed
            /\ sunk' = sunk
            /\ result'[1].message =
                   IF text_buffer # << >> THEN text_buffer
                   ELSE IF final_message = None THEN << >>
                   ELSE MessageTextOf(handled[LastThat(HasMessage, handled)])
            /\ result'[1].citations =
                   IF final_message = None THEN citations
                   ELSE citations \o FirstOccurrences(Encountered(final_message[1]),
                                                      seen_citations)]_vars

\* a run returned the streamed fragment although a final message with
\* another text and a URL came after it; the URL is cited
C31_Witness ==
    /\ pc = "returned" /\ ~use_tools
    /\ handled = <<<<K_Hi>>, <<K_FinalParts>>>>
    /\ final_message = ChoiceMessage(<<K_FinalParts>>)
    /\ result[1].message = <<"Hi">>
    /\ UrlsOf(result[1].citations) = {<<"https://example.net">>}


\* ------------------------------------------------------------ C32

\* the first of the keys whose value in the object is a string: the
\* URL-shaped field, or the title, of the rule as stated
RECURSIVE FirstString(_, _)
FirstString(value, keys) ==
    IF keys = << >> THEN None
    ELSE IF GetStr(value, Head(keys)) # None THEN GetStr(value, Head(keys))
    ELSE FirstString(value, Tail(keys))

\* the objects of a value, at any depth, the value included
RECURSIVE ObjectsIn(_)
RECURSIVE ObjectsInEach(_, _, _)
ObjectsIn(value) ==
    CASE value.t = "obj" -> {value} \cup ObjectsInEach(value.v, 1, TRUE)
      [] value.t = "arr" -> ObjectsInEach(value.v, 1, FALSE)
      [] OTHER -> {}
ObjectsInEach(xs, i, members) ==
    IF i > Len(xs) THEN {}
    ELSE ObjectsIn(IF members THEN xs[i][2] ELSE xs[i]) \cup ObjectsInEach(xs, i + 1, members)

\* the objects of the payloads handled so far
HandledObjects == UNION {ObjectsIn(from_str(handled[i])[1]) : i \in 1..Len(handled)}

\* C32: an object of a handled payload yields a citation iff one of url,
\* source_url, href, uri is a string in it, the URL being the first of them
\* in that order; the title recorded with a URL is the first present of
\* title, name, source, page_title of the first object with that URL, or
\* absent.
C32_CitationCandidate ==
    /\ \A o \in HandledObjects :
           FirstString(o, UrlKeys) # None => FirstString(o, UrlKeys)[1] \in UrlsOf(citations)
    /\ \A i \in 1..Len(citations) :
           \E o \in HandledObjects :
               /\ FirstString(o, UrlKeys) = Some(citations[i].url)
               /\ citations[i].title = AsStr(FirstPresent(o, TitleKeys))


\* ------------------------------------------------------------ C33

\* the URL of an object as collect_citations takes it: the first present of
\* url, source_url, href, uri, if it is a string
UrlOf(o) == AsStr(FirstPresent(o, UrlKeys))

\* C33: after a payload was handled, the URL of every object of the
\* payload that has one (in the sense of UrlOf), at any depth, is in
\* citations and in seen_citations, whether the objects around it have a
\* URL or not and whether their URLs were new or seen before.
C33_CitationWalkVisitsAll ==
    \A o \in HandledObjects :
        UrlOf(o) # None => UrlOf(o)[1] \in UrlsOf(citations) \cap seen_citations

\* an object with a URL inside an object with a URL, then an object with a
\* new URL inside an object with the same outer URL: the three URLs are
\* cited, in the order met, the outer one with no title
C33_Witness ==
    /\ handled = <<<<T_NestedCite>>, <<T_NestedDup>>>>
    /\ citations = <<Citation(<<"https://outer.example">>, None),
                     Citation(<<"https://inner.example">>, Some(<<"In">>)),
                     Citation(<<"https://new.example">>, None)>>


\* ------------------------------------------------------------ C34

\* the segments of a value by the rule as stated: of every object, at any
\* depth, the string under text if the string type beside it is absent,
\* empty or one of the four, then the string under text_delta; arrays in
\* order; the empty strings left out
RECURSIVE StatedSegments(_)
RECURSIVE StatedSegmentsEach(_, _, _)
StatedSegments(value) ==
    CASE value.t = "obj" ->
           (IF /\ GetStr(value, "text") # None /\ GetStr(value, "text")[1] # << >>
               /\ \/ GetStr(value, "type") = None
                  \/ GetStr(value, "type")[1] \in SegmentTypes \cup {<< >>}
            THEN <<GetStr(value, "text")[1]>> ELSE << >>)
           \o (IF GetStr(value, "text_delta") # None /\ GetStr(value, "text_delta")[1] # << >>
               THEN <<GetStr(value, "text_delta")[1]>> ELSE << >>)
           \o StatedSegmentsEach(value.v, 1, TRUE)
      [] value.t = "arr" -> StatedSegmentsEach(value.v, 1, FALSE)
      [] OTHER -> << >>
StatedSegmentsEach(xs, i, members) ==
    IF i > Len(xs) THEN << >>
    ELSE StatedSegments(IF members THEN xs[i][2] ELSE xs[i])
         \o StatedSegmentsEach(xs, i + 1, members)

\* C34: the segment list extracted from a handled payload is the list of
\* the segments of the rule as stated, and what a structured fragment of
\* stream_responses forwards is the list of the segments of its delta.
C34_SegmentExtraction ==
    \A i \in 1..Len(handled) :
        /\ extract_text_segments_list(from_str(handled[i])[1])
               = StatedSegments(from_str(handled[i])[1])
        /\ use_tools /\ Len(handled) = 1 /\ pc = "returned"
              /\ IsEventOfType(handled[1], "response.output_text.delta") =>
             sunk = StatedSegments(Get(from_str(handled[1])[1], "delta")[1])


\* ------------------------------------------------------------ C35

\* the delta of a response.output_text.delta event
DeltaOf(payload) == Get(from_str(payload)[1], "delta")[1]

\* delta values, each with its non-empty fragments in order: a string, the
\* empty string, parts with a text_delta, parts of every shape
DeltaValues ==
    {[value |-> DeltaOf(<<T_Hello>>), fragments |-> <<<<"Hello ">>>>],
     [value |-> DeltaOf(<<T_Empty>>), fragments |-> << >>],
     [value |-> DeltaOf(<<T_Parts>>), fragments |-> <<<<"a">>, <<"b">>>>],
     [value |-> DeltaOf(<<T_WalkTypes>>),
      fragments |-> <<<<"t1">>, <<"t2">>, <<"t3">>, <<"t4">>, <<"d4">>, <<"d5">>, <<"t6">>>>]}

\* r is what handle_delta_value returns on a delta value with the given
\* fragments in the state a, the sink having been invoked n times by it
DeltaForwarded(fragments, r, a, n) ==
    /\ n \in 0..Len(fragments)
    /\ r.a.sunk = a.sunk \o SubSeq(fragments, 1, n)
    /\ (r.err = None) = (\A i \in (Len(a.sunk) + 1)..(Len(a.sunk) + Len(fragments)) :
                              ~sink_fails(i, a))
    /\ r.err = None =>
         /\ n = Len(fragments)
         /\ r.a = [a EXCEPT !.sunk = @ \o fragments, !.text_buffer = @ \o Concat(fragments)]
         /\ r.emitted = (fragments # << >>)
    /\ r.err # None =>
         /\ n >= 1 /\ sink_fails(Len(a.sunk) + n, a)
         /\ \A i \in (Len(a.sunk) + 1)..(Len(a.sunk) + n - 1) : ~sink_fails(i, a)
         /\ r.a = [a EXCEPT !.sunk = @ \o SubSeq(fragments, 1, n),
                            !.text_buffer = @ \o Concat(SubSeq(fragments, 1, n - 1)),
                            !.sink_failed = TRUE]

\* C35: handle_delta_value invokes the sink with the non-empty fragments of
\* the delta value, in order, up to the first invocation that fails, and
\* never with an empty fragment; when none fails it appends the fragments
\* to text_buffer, changes nothing else, and returns true iff there was a
\* fragment; when one fails it returns the error, having appended the
\* fragments before that one and not that one.
C35_DeltaForwarding ==
    \A d \in DeltaValues :
        DeltaForwarded(d.fragments, handle_delta_value(d.value, Run), Run,
                       Len(handle_delta_value(d.value, Run).a.sunk) - Len(sunk))

\* the sink failed on the second fragment of a delta with two parts: the
\* first was forwarded and appended, the second forwarded and not appended
C35_Witness ==
    /\ use_tools /\ sink_fail_at = 2 /\ sink_failed
    /\ handled = <<<<T_Parts>>>>
    /\ sunk = <<<<"a">>, <<"b">>>>
    /\ text_buffer = <<"a">>


\* ------------------------------------------------------------ C36

\* the text of a value with an output as stated: the text then the
\* text_delta strings of the parts of content of the items of type message
StatedPartsText(parts) ==
    Concat([i \in 1..Len(parts) |->
               (IF GetStr(parts[i], "text") # None THEN GetStr(parts[i], "text")[1] ELSE << >>)
               \o (IF GetStr(parts[i], "text_delta") # None
                   THEN GetStr(parts[i], "text_delta")[1] ELSE << >>)])

StatedOutputText(value) ==
    Concat([i \in 1..Len(Elements(value, "output")) |->
               IF GetStr(Elements(value, "output")[i], "type") = Some(<<"message">>)
               THEN StatedPartsText(Elements(Elements(value, "output")[i], "content"))
               ELSE << >>])

\* a payload without a string type that has an output field
IsUntypedOutput(payload) ==
    /\ GetStr(from_str(payload)[1], "type") = None
    /\ Get(from_str(payload)[1], "output") # None

\* C36 as stated: the text parse_response_output returns for a handled
\* payload with an output is the concatenation of the text and text_delta
\* strings of the parts of its message items.
C36_OutputTextAsStated ==
    \A i \in 1..Len(handled) :
        IsUntypedOutput(handled[i]) =>
            parse_response_output(from_str(handled[i])[1], Run).text
                = StatedOutputText(from_str(handled[i])[1])

\* values with an output, each with the text of the parts of its message
\* items (text then text_delta of a part of type output_text; the text of a
\* part of another type, or the part itself if it is a string) and the
\* URL-bearing objects inside those parts
OutputValues ==
    {[value |-> from_str(<<T_Untyped>>)[1], text |-> <<"Whole", " text">>, cited |-> << >>],
     [value |-> from_str(<<T_UntypedParts>>)[1], text |-> <<"A", "B", "bare", "D">>,
      cited |-> <<Citation(<<"https://example.com">>, None)>>],
     [value |-> from_str(<<T_UntypedEmpty>>)[1], text |-> << >>, cited |-> << >>],
     [value |-> ResponseOf(<<T_Completed>>), text |-> <<"Answer">>,
      cited |-> <<Citation(<<"https://example.com">>, Some(<<"Example">>))>>],
     [value |-> ResponseOf(<<T_Completed2>>), text |-> <<"First ", "second">>,
      cited |-> <<Citation(<<"https://one.example">>, Some(<<"One">>)),
                  Citation(<<"https://one.example">>, Some(<<"Dup">>)),
                  Citation(<<"https://two.example">>, None)>>]}

\* C36: parse_response_output returns the concatenation, in order and
\* without separator, over the parts of content of the output items of
\* type message, of the part's text then text_delta when the part's type is
\* output_text, and else of the part's text, or of the part itself when it
\* is a string; items of other types give nothing. Of the locals it changes
\* citations and seen_citations only, by the first occurrences of the URLs
\* of the objects inside those parts that were not seen before.
C36_OutputText ==
    \A d \in OutputValues :
        /\ parse_response_output(d.value, Run).text = d.text
        /\ parse_response_output(d.value, Run).a =
               [Run EXCEPT !.citations = @ \o FirstOccurrences(d.cited, seen_citations),
                           !.seen_citations = @ \cup UrlsOf(d.cited)]

\* a payload whose output has a part with text and text_delta, a part with
\* a text_delta only, a bare string and a part of another type with a URL
\* gave the message
C36_Witness ==
    /\ pc = "returned" /\ use_tools
    /\ handled = <<<<T_UntypedParts>>>>
    /\ result[1].message = <<"A", "B", "bare", "D">>
    /\ result[1].citations = <<Citation(<<"https://example.com">>, None)>>


\* ------------------------------------------------------------ C37

\* the blocks of the tail streams with a line data: [DONE], and the
\* documents on their other data: lines
SentinelBlocks ==
    {<<DATA, T_Cited, LF, DATA, DONE>>, <<DATA, SP, DONE, SP, LF, DATA, T_Cited>>,
     <<DATA, K_Cited, LF, DATA, DONE>>, <<DATA, SP, DONE, SP, LF, DATA, K_Cited>>}

SentinelPayloads == {<<T_Cited>>, <<K_Cited>>}

\* the fragments and the URL of the documents of SentinelPayloads, which no
\* other block of the tail streams carries
SentinelFragments == {<<"Hello ">>, <<"Hi">>}

\* the block has a data: line whose trimmed payload is [DONE]
HasSentinelLine(block) ==
    \E i \in 1..Len(Lines(block)) :
        /\ Lines(block)[i] # << >>
        /\ Head(Lines(block)[i]) = DATA
        /\ Trim(Tail(Lines(block)[i])) = <<DONE>>

\* no payload of a sentinel block was handled, no fragment of it sent to the
\* sink, its URL not harvested
NothingOfSentinelBlocks ==
    /\ \A i \in 1..Len(handled) : handled[i] \notin SentinelPayloads
    /\ \A i \in 1..Len(sunk) : sunk[i] \notin SentinelFragments
    /\ \A i \in 1..Len(citations) : citations[i].url # <<"https://example.com">>

\* C37: a block with a line data: [DONE] ends the stream and nothing of the
\* block is parsed. process_event, given such a block in any state of a
\* run, returns the end of the stream with the state as it was, whether the
\* payload line comes before or after the sentinel. Throughout the chunk
\* loop no payload of such a block is handled, no fragment of it is sent to
\* the sink and its URL is not harvested, and the step that meets the
\* sentinel leaves the loop for the flush without an error. A trailing
\* block with a sentinel line changes nothing when it is flushed.
C37_SentinelBlockUnparsed ==
    /\ [](\A block \in SentinelBlocks :
              /\ HasSentinelLine(block)
              /\ ProcessEvent(block, Run) = [a |-> Run, done |-> TRUE, err |-> None])
    /\ [][pc = "await" =>
            /\ NothingOfSentinelBlocks'
            /\ done_seen' => pc' = "flush" /\ error' = None]_vars
    /\ [][pc = "flush" /\ HasSentinelLine(carry) =>
            Effects(Run)' = Effects(Run) /\ pc' = "resolve"]_vars

\* a fragment, then a block whose payload line comes before the sentinel:
\* the loop was left at the sentinel, and the call returns the fragment
\* alone, without the text and the URL of the payload line
C37_Witness ==
    /\ use_tools /\ pc = "returned" /\ done_seen
    /\ input = <<DATA, T_World, LF, LF, DATA, T_Cited, LF, DATA, DONE, LF, LF>>
    /\ handled = <<<<T_World>>>>
    /\ sunk = <<<<"world">>>>
    /\ citations = << >>
    /\ result = Some(WebSearchResult(<<"world">>, << >>, TRUE))

\* ------------------------------------------------------------ C38

\* the trailing block in the buffer fails: its text is not JSON, the sink
\* fails on one of its fragments, or it is an error event
TrailingFailure ==
    pc = "flush" /\ Trim(carry) # << >> /\ ProcessEvent(carry, Run).err # None

\* C38: a failure of the trailing block at the end of the stream is not
\* propagated: the flush goes on to the fallbacks without an error, keeping
\* what the block did before it failed (fragments sent to the sink and
\* appended), and the call returns Ok with the result built from that state.
\* (Violated: when the write to standard output that fails is one print!
\* makes, the sink panics and the call does not return. The failures that
\* are returned as Err are dropped as stated.)
C38_TrailingFailureDropped ==
    /\ [][TrailingFailure =>
              /\ pc' = "resolve" /\ error' = None
              /\ Effects(Run') = Effects(ProcessEvent(carry, Run).a)]_vars
    /\ [][pc = "resolve" =>
              /\ pc' = "returned" /\ error' = None
              /\ result' = Some(ResultOf(Run', use_tools))
              /\ sunk' = sunk /\ handled' = handled
              /\ text_buffer' = text_buffer /\ citations' = citations]_vars
    /\ [](pc = "returned" => error = None /\ result # None)

\* ------------------------------------------------------------ C39

\* the documents of the citation streams, parsed
CiteValues ==
    {from_str(<<doc>>)[1] :
        doc \in {T_NullUrl, T_Sources, T_NestedCite, T_NestedDup, T_Completed, T_Hello,
                 K_Cite, K_Cited, K_FinalParts, K_Hi}}

\* the citations and the set of seen URLs of a state
Harvest(a) == <<a.citations, a.seen_citations>>

\* harvesting value twice from the state a gives what harvesting it once gives
HarvestedOnce(value, once) == Harvest(collect_citations(value, once)) = Harvest(once)

\* C39: harvesting is idempotent. From any state of a run, a value
\* harvested a second time adds no entry and changes neither the order nor
\* the titles of the list, nor the set of seen URLs; harvesting again a
\* payload the run has handled changes nothing; and the step after the
\* loop, which harvests final_response and final_message again, leaves the
\* list and the set as the events left them.
C39_HarvestIdempotent ==
    /\ [](\A value \in CiteValues : HarvestedOnce(value, collect_citations(value, Run)))
    /\ [](\A i \in 1..Len(handled) : HarvestedOnce(from_str(handled[i])[1], Run))
    /\ [][pc = "resolve" =>
              citations' = citations /\ seen_citations' = seen_citations]_vars

\* the snapshot of the completed event was harvested when it arrived and
\* again by the fallback that took the text from it: one entry
C39_Witness ==
    /\ use_tools /\ pc = "returned"
    /\ handled = <<<<T_Completed>>>>
    /\ text_buffer = << >> /\ final_response # None
    /\ result[1].message = <<"Answer">>
    /\ citations = <<Citation(<<"https://example.com">>, Some(<<"Example">>))>>
    /\ seen_citations = {<<"https://example.com">>}

====
